---- MODULE Spec2Model ----
(***************************************************************************)
(* The MSS identity provider (mslib/msidp/idp.py): the WSGI application,   *)
(* its Ticket Store (IDP.ticket), its Session Cache (IDP.cache) and the    *)
(* protocol services, with requests handled one after the other (Spec),    *)
(* and with the handlers of two requests interleaved statement by          *)
(* statement on the two stores (SpecConc).                                 *)
(*                                                                         *)
(* Text is modelled as a sequence of tokens where the code cuts or joins   *)
(* it (the cookie payload) and as a TLA+ string elsewhere.  The SAML       *)
(* library (saml2) is a black box: what it parses is given by small        *)
(* tables of request strings, what it answers at run time (pick_binding,   *)
(* create_*_response, apply_binding, remove_authn_statements) is a         *)
(* scenario chosen with each request.                                      *)
(***************************************************************************)
EXTENDS Integers, Sequences, FiniteSets, TLC

VARIABLES
    ticket,     \* IDP.ticket: key -> stored envelope (saml_msg with req_info)
    uid2user,   \* IDP.cache.uid2user: session id -> user
    user2uid,   \* IDP.cache.user2uid: user -> session id
    rnd,        \* number of session ids rndstr has produced so far
    stored_by,  \* history: key -> the entry that last stored the pending
                \* ticket, and whether it stored a ForceAuthn request of a
                \* user who was logged in
    last,       \* the request handled last and its rendered outcome
    threads,    \* the handlers that run side by side, each with its locals
    browser     \* the browser that goes through the login flow: where it is,
                \* the login form, the redirect and the cookie it was given

vars == <<ticket, uid2user, user2uid, rnd, stored_by, last, threads, browser>>

\* ---------------------------------------------------------------- bounds

\* rndstr is called at most MaxSessions times in a behaviour
MaxSessions == 2

\* ------------------------------------------------------------ absent values

\* Python None (and a missing key of a dict), for values modelled as strings
None == "None"
\* the same for values modelled as token sequences
NoStr == <<>>

\* a function without the key k
Remove(f, k) == [x \in (DOMAIN f) \ {k} |-> f[x]]
\* f[k] = v, adding the key when it is new
Put(f, k, v) == [x \in (DOMAIN f) \cup {k} |-> IF x = k THEN v ELSE f[x]]
\* the empty dict
EmptyDict == [x \in {} |-> None]

\* ------------------------------------------------------------ fixed tables

\* PASSWD
PASSWD ==
    ("testuser" :> "qwerty") @@ ("roland" :> "dianakra") @@ ("babs" :> "howes")
    @@ ("upper" :> "crust") @@ ("testuser2" :> "abcd1234") @@ ("testuser3" :> "ABCD1234")

\* a USERS that would hold an entry under the key None
USERS_withNone == DOMAIN PASSWD \cup {None}

\* the users of the identity store USERS (idp_user.py): those of PASSWD
USERS == DOMAIN PASSWD

\* the strings rndstr(24) returns, in the order it returns them: distinct,
\* one token each, none of them ":"
RndTable == <<"s1", "s2", "s3", "s4">>
rndstr(n) == <<RndTable[n + 1]>>

\* AUTHN_BROKER after main(): reference -> registered method
AUTHN_BROKER ==
    (<<"1">> :> [class_ref |-> "PASSWORD", method |-> "username_password_authn", level |-> 10])
    @@ (<<"2">> :> [class_ref |-> "UNSPECIFIED", method |-> "", level |-> 0])

\* AUTHN_BROKER.pick(requested_authn_context): the methods usable for the
\* requested context, best first.  No context, or the password class: the
\* password method; any other class: nothing.
Pick(authn_context) ==
    IF authn_context \in {None, "PASSWORD"}
    THEN << [method |-> "username_password_authn", reference |-> <<"1">>] >>
    ELSE << >>

\* sha1(SAMLRequest).hexdigest(): distinct requests have distinct digests
Sha1(s) ==
    CASE s = "reqA" -> "kA"
      [] s = "reqF" -> "kF"
      [] s = "reqK" -> "kK"
      [] s = "junk" -> "kJ"
      [] OTHER -> "kX"

\* the AuthnRequests the codec parses: the message of each request string
AuthnRequests == {"reqA", "reqF", "reqK"}
Message(s) ==
    CASE s = "reqF" -> [issuer |-> "sp1", force_authn |-> "true", requested_authn_context |-> "PASSWORD"]
      [] s = "reqK" -> [issuer |-> "sp1", force_authn |-> None, requested_authn_context |-> "KERBEROS"]
      [] OTHER -> [issuer |-> "sp1", force_authn |-> None, requested_authn_context |-> None]

\* IDP.parse_authn_request(query, binding): "ok" (a request object), "none"
\* (it returns None) or "raise" (it raises)
ParseAuthn(query) ==
    IF query \in AuthnRequests THEN "ok"
    ELSE IF query = "junk" THEN "none"
    ELSE "raise"

\* IDP.metadata.certs(issuer, "any", "signing")
Certs(issuer) == IF issuer = "sp1" THEN <<"c1", "c2">> ELSE << >>

\* verify_redirect_signature(saml_msg, backend, cert)
verify_redirect_signature(saml_msg, cert) ==
    \/ saml_msg.Signature = "sig_c1" /\ cert = "c1"
    \/ saml_msg.Signature = "sig_c2" /\ cert = "c2"

\* ------------------------------------------------------------- envelopes

\* A Request Envelope (saml_msg): the dict the unpack_* methods return, with
\* the keys the handlers read; None stands for a missing key, nil for the
\* Python value None (nothing could be unpacked), other for the presence of
\* keys no handler reads.  req_info names the request string whose parsed
\* object is held under saml_msg["req_info"].
Envelope(req, relay, sig, alg, key) ==
    [nil |-> FALSE, SAMLRequest |-> req, RelayState |-> relay, Signature |-> sig,
     SigAlg |-> alg, key |-> key, SAMLart |-> None, ID |-> None, req_info |-> None,
     other |-> FALSE]
EmptyEnvelope == Envelope(None, None, None, None, None)
NilEnvelope == [EmptyEnvelope EXCEPT !.nil = TRUE]
\* "not saml_msg": None or a dict without keys
Falsy(saml_msg) == saml_msg.nil \/ saml_msg = EmptyEnvelope

\* the fields of the form posted to the verify endpoint (parse_qs of it)
Posted(login, password, key, redirect_uri, authn_reference) ==
    [login |-> login, password |-> password, key |-> key,
     redirect_uri |-> redirect_uri, authn_reference |-> authn_reference]
NoPosted == Posted(None, None, None, NoStr, NoStr)

\* ---------------------------------------------------------- cookie codec

\* base64.b64encode / b64decode: reversible; text that was not encoded
\* does not decode
b64encode(data) == <<"b64">> \o data
IsB64(v) == Len(v) > 0 /\ Head(v) = "b64"
b64decode(v) == Tail(v)

\* ":".join(args)
RECURSIVE Join(_)
Join(args) ==
    IF Len(args) = 0 THEN << >>
    ELSE IF Len(args) = 1 THEN Head(args)
    ELSE Head(args) \o <<":">> \o Join(Tail(args))

\* a split at the last ":" instead
FirstColon_last(data) ==
    IF \E i \in 1..Len(data) : data[i] = ":"
    THEN CHOOSE i \in 1..Len(data) : data[i] = ":" /\ \A j \in (i + 1)..Len(data) : data[j] # ":"
    ELSE 0

\* data.split(":", 1): the place of the first ":" (0 when there is none)
FirstColon(data) ==
    IF \E i \in 1..Len(data) : data[i] = ":"
    THEN CHOOSE i \in 1..Len(data) : data[i] = ":" /\ \A j \in 1..(i - 1) : data[j] # ":"
    ELSE 0

\* set_cookie(name, _, *args): the Set-Cookie header
set_cookie(name, args) ==
    [name |-> name, value |-> b64encode(Join(args)), path |-> "/", expires |-> "in 5 minutes"]

\* A Cookie request header: raw is whether HTTP_COOKIE is there and not
\* empty, idpauthn the value of its idpauthn morsel (NoStr: no such morsel)
NoCookie == [raw |-> FALSE, idpauthn |-> NoStr]
OtherCookie == [raw |-> TRUE, idpauthn |-> NoStr]
AuthnCookie(uid, ref) == [raw |-> TRUE, idpauthn |-> set_cookie("idpauthn", <<uid, ref>>).value]

\* info_from_cookie(kaka): (user, ref), or the exception that leaves it
info_from_cookie(kaka) ==
    IF ~kaka.raw \/ kaka.idpauthn = NoStr
    THEN [user |-> None, ref |-> NoStr, exc |-> None]
    ELSE IF ~IsB64(kaka.idpauthn)
    THEN [user |-> None, ref |-> NoStr, exc |-> "binascii.Error"]
    ELSE LET data == b64decode(kaka.idpauthn)
             i == FirstColon(data)
         IN  IF i = 0
             THEN [user |-> None, ref |-> NoStr, exc |-> "ValueError"]
             ELSE LET key == SubSeq(data, 1, i - 1)
                      ref == SubSeq(data, i + 1, Len(data))
                  IN  IF key \in DOMAIN uid2user
                      THEN [user |-> uid2user[key], ref |-> ref, exc |-> None]
                      ELSE [user |-> None, ref |-> NoStr, exc |-> None]

\* delete_cookie(environ, name): a header only when the request has cookies
delete_cookie(E) == E.kaka.raw

\* ------------------------------------------------------ requests, outcomes

\* The WSGI environ of one request: path, method, Cookie header, the id
\* parameter and the envelope of QUERY_STRING (nil: QUERY_STRING is not in
\* environ), the body read as an envelope, as the verify form and as it
\* is, and the Authorization header.
Environ(path, method, kaka, qid, query, form, posted, body, authz) ==
    [path |-> path, method |-> method, kaka |-> kaka, qid |-> qid,
     query |-> query, form |-> form, posted |-> posted, body |-> body, authz |-> authz]

NoAssertion == [userid |-> None, request |-> None, authn |-> NoStr]
NoForm == [action |-> None, key |-> None, authn_reference |-> NoStr, redirect_uri |-> NoStr]
NoLocation == [uri |-> NoStr, id |-> NoStr, key |-> None]
NoStorer == [entry |-> None, forced |-> FALSE]
NoSetCookie == [name |-> None, value |-> NoStr, path |-> None, expires |-> None]

\* What is recorded of a handled request.  entry: the callable that served
\* it; user: the user application resolved; cookie_user, id_user: the user
\* of the live session the cookie, the id parameter, names; outcome, msg:
\* the rendered response ("exception": none was rendered, msg names what
\* escaped); do_called: the service's do operation ran; assertion: what
\* create_authn_response was called with; stored, taken: the ticket key
\* _store_request wrote, the ticket lookup read; form: the login page;
\* location, set_cookie, del_cookie: the headers of the response; minted:
\* the session id do_verify made; removed: the user SLO.do took out of the
\* Session Cache; received, posted: the envelope, the verify form, the
\* entry unpacked; codec: the codec scenario the request came with;
\* authn_removed: how the call of remove_authn_statements ended ("none":
\* it was not called); logout_response: create_logout_response was called;
\* authz: the Authorization header SSO.ecp read; ticket_by: who had stored
\* the ticket the lookup read; replaced: the envelope that was pending under
\* the key _store_request wrote.
Blank ==
    [entry |-> "idle", path |-> NoStr, user |-> None, cookie_user |-> None, id_user |-> None,
     outcome |-> "none", msg |-> "", do_called |-> FALSE, assertion |-> NoAssertion,
     stored |-> None, taken |-> None, form |-> NoForm, location |-> NoLocation,
     set_cookie |-> NoSetCookie, del_cookie |-> FALSE, minted |-> NoStr,
     removed |-> None, received |-> NilEnvelope, posted |-> NoPosted, codec |-> "none",
     authn_removed |-> "none", logout_response |-> FALSE, authz |-> None,
     ticket_by |-> NoStorer, replaced |-> NilEnvelope]

\* no browser is in the login flow
NoBrowser ==
    [pc |-> "none", form |-> NoForm, location |-> NoLocation, cookie |-> NoCookie,
     reply |-> Blank]

\* the state a handler works on: the stores and the record of the request
State(l) ==
    [ticket |-> ticket, uid2user |-> uid2user, user2uid |-> user2uid, rnd |-> rnd,
     stored_by |-> stored_by, last |-> l]

\* resp = Status(msg); return resp(environ, start_response)
Reply(S, status, msg) == [S EXCEPT !.last.outcome = status, !.last.msg = msg]
\* an exception leaves the handler: what was written before it stays
Raise(S, exc) == [S EXCEPT !.last.outcome = "exception", !.last.msg = exc]

\* ------------------------------------------------------------ Service

\* Service.unpack_redirect: the query string as a dict, None without one
unpack_redirect(E) ==
    IF E.query.nil THEN NilEnvelope
    ELSE [E.query EXCEPT !.other = @ \/ E.qid # NoStr]

\* Service.unpack_post: the form of the body
unpack_post(E) == E.form

\* Service.unpack_soap: the whole body as SAMLRequest, empty relay state
unpack_soap(E) == Envelope(E.body, "", None, None, None)

\* Service.unpack_either
unpack_either(E) ==
    IF E.method = "GET" THEN unpack_redirect(E)
    ELSE IF E.method = "POST" THEN unpack_post(E)
    ELSE NilEnvelope

\* geturl(environ, query=False): the URL the request came to
geturl(E) == E.path

\* username_password_authn: the login page
username_password_authn(S, reference, key, redirect_uri, headers) ==
    Reply([S EXCEPT !.last.form = [action |-> "/verify", key |-> key,
                                   authn_reference |-> reference,
                                   redirect_uri |-> redirect_uri],
                    !.last.del_cookie = headers],
          "Response", "login.mako")

\* a do_authentication that would not look at what pick returns
do_authentication_blind(S, authn_context, key, redirect_uri, headers) ==
    username_password_authn(S, <<"1">>, key, redirect_uri, headers)

\* do_authentication: the login page of the best method, or Unauthorized
do_authentication(S, authn_context, key, redirect_uri, headers) ==
    LET auth_info == Pick(authn_context)
    IN  IF Len(auth_info) > 0
        THEN username_password_authn(S, auth_info[1].reference, key, redirect_uri, headers)
        ELSE Reply(S, "Unauthorized", "No usable authentication method")

\* a login flow that would carry a key other than the one it was given
not_authn_stale(S, E, key, requested_authn_context) ==
    do_authentication(S, requested_authn_context, "kX", geturl(E), delete_cookie(E))

\* Service.not_authn
not_authn(S, E, key, requested_authn_context) ==
    do_authentication(S, requested_authn_context, key, geturl(E), delete_cookie(E))

\* a response that would not look for the Location header
response_nolocation(S, binding, http_args) ==
    IF binding = "HTTP-Artifact" THEN Reply(S, "Redirect", "")
    ELSE IF http_args.data THEN Reply(S, "Response", "data")
    ELSE Reply(S, "ServiceError", "Don't know how to return response")

\* Service.response
response(S, binding, http_args) ==
    IF binding = "HTTP-Artifact" THEN Reply(S, "Redirect", "")
    ELSE IF http_args.data THEN Reply(S, "Response", "data")
    ELSE IF http_args.location
         THEN Reply([S EXCEPT !.last.location.uri = <<"Location">>], "Redirect", "")
         ELSE Reply(S, "ServiceError", "Don't know how to return response")

\* what IDP.apply_binding returns in each codec scenario: a body, a
\* Location header, or neither
HttpArgs(c) ==
    [data |-> c \in {"post", "args_UnknownPrincipal"},
     location |-> c = "redirect"]
BindingOut(c) ==
    IF c = "redirect" THEN "HTTP-Redirect"
    ELSE IF c = "artifact" THEN "HTTP-Artifact"
    ELSE "HTTP-POST"

\* ---------------------------------------------------------------- SSO

\* the codec scenarios of an SSO request: the outbound binding picked
\* ("post", "redirect", "artifact", "nothing": apply_binding gives neither
\* body nor Location), or the call that raises
SSOCodec ==
    {"post", "redirect", "artifact", "nothing", "pick_UnsupportedBinding", "pick_error",
     "args_UnknownPrincipal", "create_error", "apply_error"}

\* SSO.do (with SSO.verify_request)
SSO_do(S, E, self, query, binding_in, relay_state, c) ==
    LET S1 == [S EXCEPT !.last.do_called = TRUE]
        parsed == IF self.req_info # None THEN "ok" ELSE ParseAuthn(query)
        req_info == IF self.req_info # None THEN self.req_info ELSE query
    IN
    IF query = ""
    THEN \* verify_request renders Unauthorized("Unknown user"); apply_binding
         \* then has no binding to apply
         Raise(S1, "SAMLError")
    ELSE IF parsed = "raise" THEN Raise(S1, "codec")
    ELSE IF parsed = "none" THEN Raise(S1, "AttributeError")
    ELSE IF c = "pick_UnsupportedBinding"
    THEN Reply(S1, "ServiceError", "UnsupportedBinding")
    ELSE IF c = "pick_error" THEN Raise(S1, "codec")
    ELSE IF c # "args_UnknownPrincipal" /\ self.user \notin USERS
    THEN Raise(S1, "KeyError")
    ELSE IF c = "create_error" THEN Reply(S1, "ServiceError", "Exception")
    ELSE LET S2 == IF c = "args_UnknownPrincipal" THEN S1
                   ELSE [S1 EXCEPT !.last.assertion =
                            [userid |-> self.user, request |-> req_info,
                             authn |-> self.authn]]
         IN  IF c = "apply_error" THEN Raise(S2, "codec")
             ELSE response(S2, BindingOut(c), HttpArgs(c))

\* ---------------------------------------------------------------- SLO

\* the LogoutRequests the codec parses, and IDP.ident.find_local_id of the
\* name identifier of each (None: the name identifier is not known)
LogoutRequests == {"lo_testuser", "lo_roland", "lo_ghost", "lo_noname"}
HasNameId(request) == request # "lo_noname"
find_local_id(request) ==
    CASE request = "lo_testuser" -> "testuser"
      [] request = "lo_roland" -> "roland"
      [] OTHER -> None

\* the codec scenarios of an SLO request.  remove_authn_statements raises
\* KeyError in two of them: line 679 then hands ServiceError a second
\* positional argument, which the constructor (saml2.httputil, not among
\* the sources) either takes ("remove_KeyError") or refuses with TypeError
\* ("remove_KeyError_TypeError")
SLOCodec ==
    {"ok", "remove_KeyError", "remove_KeyError_TypeError", "pick_error", "apply_error",
     "no_location"}

\* a removal that would take out every session there is
RemoveSession_all(S, lid) ==
    [S EXCEPT !.uid2user = EmptyDict, !.user2uid = EmptyDict,
              !.last.removed = IF DOMAIN S.user2uid = {} THEN @ ELSE lid]

\* SLO.do, lines 669-673: the user's entry leaves both maps
RemoveSession(S, lid) ==
    IF lid \in DOMAIN S.user2uid
    THEN LET uid == S.user2uid[lid]
         IN  [S EXCEPT !.uid2user = IF uid \in DOMAIN @ THEN Remove(@, uid) ELSE @,
                       !.user2uid = Remove(@, lid),
                       !.last.removed = lid]
    ELSE S

\* SLO.do
SLO_do(S, E, self, request, binding, relay_state, c) ==
    LET S1 == [S EXCEPT !.last.do_called = TRUE]
    IN
    IF request \notin LogoutRequests THEN Reply(S1, "BadRequest", "parse_logout_request")
    ELSE
    LET raised == c \in {"remove_KeyError", "remove_KeyError_TypeError"}
        S2 == IF HasNameId(request)
              THEN [RemoveSession(S1, find_local_id(request)) EXCEPT
                      !.last.authn_removed = IF raised THEN "KeyError" ELSE "ok"]
              ELSE S1
        S2r == [S2 EXCEPT !.last.logout_response = TRUE]
    IN
    IF HasNameId(request) /\ c = "remove_KeyError"
    THEN Reply(S2, "ServiceError", "Unknown session: %s")
    ELSE IF HasNameId(request) /\ c = "remove_KeyError_TypeError"
    THEN Raise(S2, "TypeError")
    ELSE IF binding # "SOAP" /\ c = "pick_error" THEN Raise(S2r, "codec")
    ELSE IF c = "apply_error" THEN Reply(S2r, "ServiceError", "apply_binding")
    ELSE LET S3 == [S2r EXCEPT !.last.del_cookie = delete_cookie(E)]
         IN  IF binding = "HTTP-Redirect"
             THEN IF c = "no_location"
                  THEN Reply(S3, "ServiceError", "missing Location header")
                  ELSE Reply([S3 EXCEPT !.last.location.uri = <<"Location">>], "Redirect", "")
             ELSE Reply(S3, "Response", "data")

\* ------------------------------------------------------ the other services

\* the codec scenarios of the other services: every call succeeds, the
\* identifier asked for is not known, or a call raises
QueryCodec == {"ok", "unknown", "error"}

\* NMI.do, ARS.do, AQS.do, ATTR.do: no call is guarded
Plain_do(S, c) ==
    LET S1 == [S EXCEPT !.last.do_called = TRUE]
    IN  IF c = "ok" THEN Reply(S1, "Response", "data") ELSE Raise(S1, "codec")

\* NIM.do: Unknown and PolicyError are answered, nothing else is guarded
NIM_do(S, c) ==
    LET S1 == [S EXCEPT !.last.do_called = TRUE]
    IN  IF c = "ok" THEN Reply(S1, "Response", "data")
        ELSE IF c = "unknown" THEN Reply(S1, "BadRequest", "Unknown entity")
        ELSE Raise(S1, "codec")

\* AIDR.do: Unknown is answered, apply_binding is not guarded
AIDR_do(S, c) ==
    LET S1 == [S EXCEPT !.last.do_called = TRUE]
    IN  IF c = "ok" THEN Reply(S1, "Response", "data")
        ELSE IF c = "unknown" THEN Reply(S1, "NotFound", "aid")
        ELSE Raise(S1, "codec")

\* self.do of each service class; signature and sigalg are keyword
\* arguments only SSO.do and SLO.do take
Do(S, E, self, query, binding, relay_state, signed, c) ==
    CASE self.cls = "SSO" -> SSO_do(S, E, self, query, binding, relay_state, c)
      [] self.cls = "SLO" -> SLO_do(S, E, self, query, binding, relay_state, c)
      [] OTHER ->
           IF signed THEN Raise(S, "TypeError")
           ELSE CASE self.cls = "NIM" -> NIM_do(S, c)
                  [] self.cls = "AIDR" -> AIDR_do(S, c)
                  [] OTHER -> Plain_do(S, c)

\* Service.operation
Service_operation(S, E, self, saml_msg, binding, c) ==
    IF ~(~Falsy(saml_msg) /\ saml_msg.SAMLRequest # None)
    THEN Reply(S, "BadRequest", "Error parsing request or no request")
    ELSE IF saml_msg.Signature # None /\ saml_msg.SigAlg = None
    THEN Reply(S, "BadRequest", "Signature Algorithm specification is missing")
    ELSE Do(S, E, self, saml_msg.SAMLRequest, binding,
            IF saml_msg.RelayState = None THEN "" ELSE saml_msg.RelayState,
            saml_msg.Signature # None, c)

\* AIDR.operation
AIDR_operation(S, E, self, _dict, binding, c) ==
    IF Falsy(_dict) \/ _dict.ID = None
    THEN Reply(S, "BadRequest", "Error parsing request or no request")
    ELSE Do(S, E, self, _dict.ID, binding, "", FALSE, c)

\* self.operation
operation(S, E, self, saml_msg, binding, c) ==
    IF self.cls = "AIDR" THEN AIDR_operation(S, E, self, saml_msg, binding, c)
    ELSE Service_operation(S, E, self, saml_msg, binding, c)

\* Service.artifact_operation: the artifact is exchanged for the request
\* ("error": artifact2message does not know it)
artifact_operation(S, E, self, saml_msg, c) ==
    IF Falsy(saml_msg) THEN Reply(S, "BadRequest", "Missing query")
    ELSE IF saml_msg.SAMLart = None THEN Raise(S, "KeyError")
    ELSE IF c = "error" THEN Raise(S, "codec")
    ELSE Do(S, E, self, saml_msg.SAMLart, "HTTP-Artifact",
            IF saml_msg.RelayState = None THEN "" ELSE saml_msg.RelayState, FALSE, c)

\* Service.redirect, post, artifact, soap, uri
Service_redirect(S, E, self, c) ==
    LET _dict == unpack_redirect(E)
    IN  operation([S EXCEPT !.last.received = _dict], E, self, _dict, "HTTP-Redirect", c)
Service_post(S, E, self, c) ==
    LET _dict == unpack_post(E)
    IN  operation([S EXCEPT !.last.received = _dict], E, self, _dict, "HTTP-POST", c)
Service_artifact(S, E, self, c) ==
    LET _dict == unpack_either(E)
    IN  artifact_operation([S EXCEPT !.last.received = _dict], E, self, _dict, c)
Service_soap(S, E, self, c) ==
    LET _dict == unpack_soap(E)
    IN  operation([S EXCEPT !.last.received = _dict], E, self, _dict, "SOAP", c)
Service_uri(S, E, self, c) ==
    LET _dict == unpack_either(E)
    IN  operation([S EXCEPT !.last.received = _dict], E, self, _dict, "SOAP", c)

\* ------------------------------------------------------- SSO entry points

\* SSO._store_request: the key is the digest of the raw SAMLRequest.  Of
\* the envelope, the keys that are read when the ticket comes back are kept.
_store_request(S, saml_msg) ==
    LET key == Sha1(saml_msg.SAMLRequest)
    IN  [S EXCEPT !.ticket = Put(@, key, [saml_msg EXCEPT !.key = None, !.other = FALSE]),
                  !.stored_by = Put(@, key,
                      [entry |-> S.last.entry,
                       forced |-> /\ S.last.user # None
                                  /\ Message(saml_msg.SAMLRequest).force_authn = "true"]),
                  !.last.stored = key,
                  !.last.replaced = IF key \in DOMAIN S.ticket THEN S.ticket[key]
                                    ELSE NilEnvelope]

\* a lookup that would leave the ticket where it is
TakeTicket_kept(S, _key) ==
    [S EXCEPT !.last.taken = _key]

\* the ticket lookup of SSO.redirect and SSO.post, when it finds the
\* ticket: the ticket is deleted
TakeTicket(S, _key) ==
    [S EXCEPT !.ticket = Remove(@, _key),
              !.stored_by = Remove(@, _key),
              !.last.taken = _key,
              !.last.ticket_by = S.stored_by[_key]]

\* the ticket lookup succeeds: the key is given, names a ticket, and the
\* ticket holds its req_info
TicketFound(S, saml_msg) ==
    /\ saml_msg.key # None
    /\ saml_msg.key \in DOMAIN S.ticket
    /\ S.ticket[saml_msg.key].req_info # None

\* saml_msg when the lookup raised KeyError: it was rebound already when
\* the ticket was there without req_info
AfterKeyError(S, saml_msg) ==
    IF saml_msg.key # None /\ saml_msg.key \in DOMAIN S.ticket
    THEN S.ticket[saml_msg.key]
    ELSE saml_msg

\* a check that would let every signature pass
verified_ok_any(saml_msg, _certs) == TRUE

\* SSO.redirect, lines 436-447: a signed request is verified against the
\* issuer's certificates, one after the other
verified_ok(saml_msg, _certs) ==
    \E i \in 1..Len(_certs) : verify_redirect_signature(saml_msg, _certs[i])

\* a test that would never see ForceAuthn
ForceAuthn_never(_req) == FALSE

\* _req.force_authn is not None and _req.force_authn.lower() == "true"
ForceAuthn(_req) == _req.force_authn # None /\ _req.force_authn = "true"

\* a test that would take every caller for a logged-in user
Authenticated_always(self) == TRUE

\* "if self.user:" of SSO.redirect and SSO.post
Authenticated(self) == self.user # None

\* SSO.redirect
SSO_redirect(S0, E, self, c) ==
    LET unpacked == unpack_redirect(E)
        S == [S0 EXCEPT !.last.received = unpacked]
    IN
    IF unpacked.nil THEN Raise(S, "TypeError")
    ELSE IF TicketFound(S, unpacked)
    THEN LET t == S.ticket[unpacked.key]
         IN  operation(TakeTicket(S, unpacked.key), E, [self EXCEPT !.req_info = t.req_info],
                       t, "HTTP-Redirect", c)
    ELSE
    LET saml_msg == AfterKeyError(S, unpacked)
    IN
    IF saml_msg.SAMLRequest = None
    THEN Reply(S, "BadRequest", "Message signature verification failure")
    ELSE IF ParseAuthn(saml_msg.SAMLRequest) = "raise" THEN Raise(S, "codec")
    ELSE IF ParseAuthn(saml_msg.SAMLRequest) = "none"
    THEN Reply(S, "BadRequest", "Message parsing failed")
    ELSE
    LET _req == Message(saml_msg.SAMLRequest)
        stored == [saml_msg EXCEPT !.req_info = saml_msg.SAMLRequest]
        me == [self EXCEPT !.req_info = saml_msg.SAMLRequest]
    IN
    IF /\ saml_msg.SigAlg # None /\ saml_msg.Signature # None
       /\ ~verified_ok(saml_msg, Certs(_req.issuer))
    THEN Reply(S, "BadRequest", "Message signature verification failure")
    ELSE IF Authenticated(self)
    THEN IF ForceAuthn(_req)
         THEN LET S1 == _store_request(S, stored)
              IN  not_authn(S1, E, S1.last.stored, _req.requested_authn_context)
         ELSE operation(S, E, me, stored, "HTTP-Redirect", c)
    ELSE LET S1 == _store_request(S, stored)
         IN  not_authn(S1, E, S1.last.stored, _req.requested_authn_context)

\* SSO.post
SSO_post(S0, E, self, c) ==
    LET unpacked == unpack_either(E)
        S == [S0 EXCEPT !.last.received = unpacked]
    IN
    IF unpacked.nil THEN Raise(S, "TypeError")
    ELSE IF TicketFound(S, unpacked)
    THEN LET t == S.ticket[unpacked.key]
         IN  operation(TakeTicket(S, unpacked.key), E, [self EXCEPT !.req_info = t.req_info],
                       t, "HTTP-POST", c)
    ELSE
    LET saml_msg == AfterKeyError(S, unpacked)
    IN
    IF saml_msg.SAMLRequest = None THEN Raise(S, "KeyError")
    ELSE IF ParseAuthn(saml_msg.SAMLRequest) = "raise" THEN Raise(S, "codec")
    ELSE IF ParseAuthn(saml_msg.SAMLRequest) = "none" THEN Raise(S, "AttributeError")
    ELSE
    LET _req == Message(saml_msg.SAMLRequest)
        stored == [saml_msg EXCEPT !.req_info = saml_msg.SAMLRequest]
        me == [self EXCEPT !.req_info = saml_msg.SAMLRequest]
    IN
    IF Authenticated(self)
    THEN IF ForceAuthn(_req)
         THEN LET S1 == _store_request(S, stored)
              IN  not_authn(S1, E, S1.last.stored, _req.requested_authn_context)
         ELSE operation(S, E, me, saml_msg, "HTTP-POST", c)
    ELSE LET S1 == _store_request(S, stored)
         IN  not_authn(S1, E, S1.last.stored, _req.requested_authn_context)

\* The Authorization headers a request to sso/ecp comes with, and what
\* base64.b64decode makes of the text after "Basic ": "binascii.Error"
\* for text that is no base64 (a lone character), the decoded bytes
\* otherwise ("!" is dropped by the decoder, which leaves no bytes).
Authorizations ==
    ("Digest" :> None)
    @@ ("Basic a" :> "binascii.Error")
    @@ ("Basic !" :> "")
    @@ ("Basic dGVzdA==" :> "test")
    @@ ("Basic bm9ib2R5OnF3ZXJ0eQ==" :> "nobody:qwerty")
    @@ ("Basic dGVzdHVzZXI6YWJjZA==" :> "testuser:abcd")
    @@ ("Basic dGVzdHVzZXI6cXdlcnR5" :> "testuser:qwerty")

\* the Authorization headers that name a user of PASSWD with that user's
\* password
GoodAuthorizations == {"Basic dGVzdHVzZXI6cXdlcnR5"}

\* authz_info.startswith("Basic ")
IsBasic(authz) == authz # None /\ authz # "Digest"

\* SSO.ecp: without a Basic Authorization header the answer is
\* Unauthorized.  With one, text that is not base64 raises binascii.Error
\* (a ValueError, where TypeError is handled); decoded, the bytes are split
\* with _info.split(":"), a str separator, which raises TypeError where
\* ValueError is handled.  No handler is there for either, so the lines
\* after the split (is_equal, self.user, operation) are never reached.
SSO_ecp(S, E, self, c) ==
    LET S1 == [S EXCEPT !.last.authz = E.authz]
    IN  IF ~IsBasic(E.authz) THEN Reply(S1, "Unauthorized", "")
        ELSE IF Authorizations[E.authz] = "binascii.Error" THEN Raise(S1, "binascii.Error")
        ELSE Raise(S1, "TypeError")

\* ----------------------------------------------------------------- verify

\* verify_username_and_password: "KeyError" when login or password is not
\* posted or the user is not in PASSWD
verify_username_and_password(dic) ==
    IF dic.login = None \/ dic.password = None \/ dic.login \notin DOMAIN PASSWD
    THEN [exc |-> "KeyError", ok |-> FALSE, user |-> None]
    ELSE IF PASSWD[dic.login] = dic.password
    THEN [exc |-> None, ok |-> TRUE, user |-> dic.login]
    ELSE [exc |-> None, ok |-> FALSE, user |-> None]

\* do_verify, lines 620-622: a new session id is entered in both maps
MintSession(S, user) ==
    LET uid == rndstr(S.rnd)
    IN  [S EXCEPT !.rnd = @ + 1,
                  !.uid2user = Put(@, uid, user),
                  !.user2uid = Put(@, user, uid),
                  !.last.minted = uid]

\* a redirect that would drop the ticket key
Lox_nokey(query, uid) == [uri |-> query.redirect_uri, id |-> uid, key |-> None]

\* do_verify, line 627: the redirect that completes the login
Lox(query, uid) == [uri |-> query.redirect_uri, id |-> uid, key |-> query.key]

\* do_verify
do_verify(S0, E) ==
    LET query == E.posted
        S == [S0 EXCEPT !.last.posted = query]
        v == verify_username_and_password(query)
    IN
    IF ~v.ok THEN Reply(S, "Unauthorized", "Unknown user or wrong password")
    ELSE
    LET S1 == MintSession(S, v.user)
        uid == S1.last.minted
    IN
    IF query.authn_reference = NoStr THEN Raise(S1, "KeyError")
    ELSE
    LET S2 == [S1 EXCEPT !.last.set_cookie =
                            set_cookie("idpauthn", <<uid, query.authn_reference>>)]
    IN
    IF query.redirect_uri = NoStr \/ query.key = None THEN Raise(S2, "KeyError")
    ELSE Reply([S2 EXCEPT !.last.location = Lox(query, uid)], "Redirect", "")

\* a not_found that would empty the Ticket Store
not_found_wipe(S) ==
    Reply([S EXCEPT !.ticket = EmptyDict, !.stored_by = EmptyDict], "NotFound", "")

\* not_found
not_found(S) == Reply(S, "NotFound", "")

\* metadata: when create_metadata_string raises, the handler reads
\* ex.message, which exceptions do not have
MetadataCodec == {"ok", "error"}
metadata(S, c) ==
    IF c = "ok" THEN Reply(S, "Response", "metadata") ELSE Raise(S, "AttributeError")

\* IdpServerSettings_.args.path, the root staticfile serves from, as it is
\* given with -p: a directory, here /srv/idp
ArgsPath == <<"srv", "idp">>

\* os.path.realpath of the segments rest after the segments done: ".."
\* steps up (no symbolic links)
RECURSIVE realpath(_, _)
realpath(done, rest) ==
    IF Len(rest) = 0 THEN done
    ELSE IF Head(rest) = ".."
    THEN realpath(IF Len(done) = 0 THEN done ELSE SubSeq(done, 1, Len(done) - 1), Tail(rest))
    ELSE realpath(Append(done, Head(rest)), Tail(rest))

\* str.startswith on one segment name: idp_old begins with idp
NameStartsWith(name, prefix) == name = prefix \/ (name = "idp_old" /\ prefix = "idp")

\* path.startswith(args.path), line 1018: a comparison of text, so that
\* the last segment of a root written without a closing "/" need only be
\* the beginning of the segment in its place
startswith(path, root, closed) ==
    /\ Len(path) >= Len(root)
    /\ SubSeq(path, 1, Len(root) - 1) = SubSeq(root, 1, Len(root) - 1)
    /\ IF closed
       THEN path[Len(root)] = root[Len(root)] /\ Len(path) > Len(root)
       ELSE NameStartsWith(path[Len(root)], root[Len(root)])

\* the scenarios of a static request.  "ok", "error": args.path is written
\* without a closing "/", and the file can, cannot be read (the handler
\* then reads ex.message, which exceptions do not have); "closed":
\* args.path is written with a closing "/"; "relative": args.path is a
\* relative path (the default of -p), which no real path starts with
StaticCodec == {"ok", "error", "closed", "relative"}

\* staticfile
staticfile(S, E, c) ==
    LET path == realpath(ArgsPath, E.path)
    IN  IF c = "relative" \/ ~startswith(path, ArgsPath, c = "closed")
        THEN Reply(S, "Unauthorized", "")
        ELSE IF c = "error" THEN Raise(S, "AttributeError")
        ELSE Reply(S, "Response", "file")

\* ------------------------------------------------------------ application

\* A path is the sequence of its segments ("sso/redirect" is <<"sso",
\* "redirect">>).  A row of the URL tables: the segments its pattern names,
\* whether the pattern goes on with /(.*), and the callable.
Row(pat, rest, cls, func, name) ==
    [pat |-> pat, rest |-> rest, cls |-> cls, func |-> func, name |-> name]

AUTHN_URLS ==
    << Row(<<"sso", "post">>, FALSE, "SSO", "post", "SSO.post"),
       Row(<<"sso", "post">>, TRUE, "SSO", "post", "SSO.post"),
       Row(<<"sso", "redirect">>, FALSE, "SSO", "redirect", "SSO.redirect"),
       Row(<<"sso", "redirect">>, TRUE, "SSO", "redirect", "SSO.redirect"),
       Row(<<"sso", "art">>, FALSE, "SSO", "artifact", "SSO.artifact"),
       Row(<<"sso", "art">>, TRUE, "SSO", "artifact", "SSO.artifact"),
       Row(<<"slo", "redirect">>, FALSE, "SLO", "redirect", "SLO.redirect"),
       Row(<<"slo", "redirect">>, TRUE, "SLO", "redirect", "SLO.redirect"),
       Row(<<"slo", "post">>, FALSE, "SLO", "post", "SLO.post"),
       Row(<<"slo", "post">>, TRUE, "SLO", "post", "SLO.post"),
       Row(<<"slo", "soap">>, FALSE, "SLO", "soap", "SLO.soap"),
       Row(<<"slo", "soap">>, TRUE, "SLO", "soap", "SLO.soap"),
       Row(<<"airs">>, FALSE, "AIDR", "uri", "AIDR.uri"),
       Row(<<"ars">>, FALSE, "ARS", "soap", "ARS.soap"),
       Row(<<"mni", "post">>, FALSE, "NMI", "post", "NMI.post"),
       Row(<<"mni", "post">>, TRUE, "NMI", "post", "NMI.post"),
       Row(<<"mni", "redirect">>, FALSE, "NMI", "redirect", "NMI.redirect"),
       Row(<<"mni", "redirect">>, TRUE, "NMI", "redirect", "NMI.redirect"),
       Row(<<"mni", "art">>, FALSE, "NMI", "artifact", "NMI.artifact"),
       Row(<<"mni", "art">>, TRUE, "NMI", "artifact", "NMI.artifact"),
       Row(<<"mni", "soap">>, FALSE, "NMI", "soap", "NMI.soap"),
       Row(<<"mni", "soap">>, TRUE, "NMI", "soap", "NMI.soap"),
       Row(<<"nim">>, FALSE, "NIM", "soap", "NIM.soap"),
       Row(<<"nim">>, TRUE, "NIM", "soap", "NIM.soap"),
       Row(<<"aqs">>, FALSE, "AQS", "soap", "AQS.soap"),
       Row(<<"attr">>, FALSE, "ATTR", "soap", "ATTR.soap") >>

NON_AUTHN_URLS ==
    << Row(<<"verify">>, TRUE, "", "do_verify", "do_verify"),
       Row(<<"sso", "ecp">>, FALSE, "SSO", "ecp", "SSO.ecp") >>

\* re.search(regex, path), segment by segment: "pat$" matches a path that
\* ends with pat, "pat/(.*)$" one that holds pat followed by more, and
\* "verify?(.*)$" one that holds the segment anywhere
Match(row, path) ==
    IF row.func = "do_verify"
    THEN \E i \in 1..Len(path) : path[i] = "verify"
    ELSE IF row.rest
    THEN \E i \in 1..Len(path) :
            /\ i + Len(row.pat) - 1 < Len(path)
            /\ SubSeq(path, i, i + Len(row.pat) - 1) = row.pat
    ELSE /\ Len(path) >= Len(row.pat)
         /\ SubSeq(path, Len(path) - Len(row.pat) + 1, Len(path)) = row.pat

\* a scan that would go on to the last row that matches
FirstMatch_last(url_patterns, path) ==
    LET hits == {i \in 1..Len(url_patterns) : Match(url_patterns[i], path)}
    IN  IF hits = {} THEN 0 ELSE CHOOSE i \in hits : \A j \in hits : i >= j

\* the first row of the table that matches (0: none does)
FirstMatch(url_patterns, path) ==
    LET hits == {i \in 1..Len(url_patterns) : Match(url_patterns[i], path)}
    IN  IF hits = {} THEN 0 ELSE CHOOSE i \in hits : \A j \in hits : i <= j

\* application, lines 1046-1060: the user of the request, and the method
\* its cookie names (environ["idp.authn"], by its reference)
Resolve(E) ==
    IF E.kaka.raw
    THEN LET i == info_from_cookie(E.kaka)
         IN  IF i.exc # None THEN [user |-> None, authn |-> NoStr, exc |-> i.exc]
             ELSE IF i.ref # NoStr /\ i.ref \notin DOMAIN AUTHN_BROKER
             THEN [user |-> i.user, authn |-> NoStr, exc |-> "KeyError"]
             ELSE [user |-> i.user, authn |-> i.ref, exc |-> None]
    ELSE IF ~E.query.nil /\ E.qid \in DOMAIN uid2user
         THEN [user |-> uid2user[E.qid], authn |-> NoStr, exc |-> None]
         ELSE [user |-> None, authn |-> NoStr, exc |-> None]

\* callback(environ, start_response, user), or the method of the service
\* object made for the request
Call(row, S, E, self, c) ==
    CASE row.func = "do_verify" -> do_verify(S, E)
      [] row.func = "ecp" -> SSO_ecp(S, E, self, c)
      [] row.func = "redirect" ->
           IF row.cls = "SSO" THEN SSO_redirect(S, E, self, c)
           ELSE Service_redirect(S, E, self, c)
      [] row.func = "post" ->
           IF row.cls = "SSO" THEN SSO_post(S, E, self, c)
           ELSE Service_post(S, E, self, c)
      [] row.func = "artifact" -> Service_artifact(S, E, self, c)
      [] row.func = "soap" -> Service_soap(S, E, self, c)
      [] OTHER -> Service_uri(S, E, self, c)

\* the user of the live session a well-formed idpauthn cookie names, and
\* the user of the live session the id parameter names
CookieUser(E) ==
    IF info_from_cookie(E.kaka).exc = None THEN info_from_cookie(E.kaka).user ELSE None
IdUser(E) ==
    IF ~E.query.nil /\ E.qid \in DOMAIN uid2user THEN uid2user[E.qid] ELSE None

\* application
application(E, c) ==
    LET path == E.path
        r == Resolve(E)
        B == [Blank EXCEPT !.path = path, !.user = r.user, !.codec = c,
                           !.cookie_user = CookieUser(E), !.id_user = IdUser(E)]
        url_patterns == IF r.user = None THEN NON_AUTHN_URLS \o AUTHN_URLS ELSE AUTHN_URLS
        i == FirstMatch(url_patterns, path)
    IN
    IF path = <<"idp.xml">>
    THEN metadata(State([Blank EXCEPT !.path = path, !.entry = "metadata", !.codec = c]), c)
    ELSE IF r.exc # None THEN Raise(State([B EXCEPT !.entry = "application"]), r.exc)
    ELSE IF i > 0
    THEN Call(url_patterns[i], State([B EXCEPT !.entry = url_patterns[i].name]), E,
              [cls |-> url_patterns[i].cls, user |-> r.user, authn |-> r.authn,
               req_info |-> None], c)
    ELSE IF Len(path) > 1 /\ \E k \in 1..(Len(path) - 1) : path[k] = "static"
    THEN staticfile(State([B EXCEPT !.entry = "staticfile"]), E, c)
    ELSE not_found(State([B EXCEPT !.entry = "not_found"]))

\* ---------------------------------------------------------- the requests

\* the session ids a client can present: those rndstr can have produced
SessionIds == {rndstr(n - 1) : n \in 1..MaxSessions}

\* What a client presents to be recognised, as <<Cookie header, id
\* parameter>>: nothing; a Cookie header without an idpauthn morsel; the
\* idpauthn cookie do_verify sets for a session id and the password method;
\* the id parameter, alone or beside a cookie that is not idpauthn
Identities ==
    {<<NoCookie, NoStr>>, <<OtherCookie, NoStr>>}
    \cup {<<AuthnCookie(uid, <<"1">>), NoStr>> : uid \in SessionIds}
    \cup {<<NoCookie, uid>> : uid \in SessionIds}
    \cup {<<OtherCookie, uid>> : uid \in SessionIds}

\* of these, the ones sent to the entries that do not look at the user
FewIdentities ==
    {<<NoCookie, NoStr>>, <<AuthnCookie(rndstr(0), <<"1">>), NoStr>>, <<OtherCookie, rndstr(0)>>}

\* the envelopes sent to sso/redirect
SSOEnvelopes ==
    { Envelope("reqA", "rs1", None, None, None),
      Envelope("reqA", "rs1", "sig_c2", "rsa", None),
      Envelope("reqA", "rs1", "sig_bad", "rsa", None),
      Envelope("reqA", "rs1", "sig_bad", None, None),
      Envelope("reqF", "rs1", None, None, None),
      Envelope("reqK", "rs1", None, None, None),
      Envelope("junk", None, None, None, None),
      Envelope("boom", None, None, None, None),
      Envelope("reqA", "rs1", None, None, "kA"),
      Envelope("reqA", "rs1", "sig_bad", "rsa", "kA"),
      Envelope(None, None, None, None, "kA"),
      Envelope(None, None, None, None, "kF"),
      Envelope(None, None, None, None, "kX"),
      EmptyEnvelope,
      NilEnvelope }

\* the envelopes sent to sso/post
SSOForms ==
    { Envelope("reqA", "rs1", None, None, None),
      Envelope("reqA", "rs2", None, None, None),
      Envelope("reqF", "rs1", None, None, None),
      Envelope("junk", None, None, None, None),
      Envelope("boom", None, None, None, None),
      Envelope(None, None, None, None, "kA"),
      Envelope(None, None, None, None, "kF"),
      EmptyEnvelope,
      NilEnvelope }

\* the envelopes sent to the other services
Artifact(art) == [EmptyEnvelope EXCEPT !.SAMLart = art]
AssertionId(aid) == [EmptyEnvelope EXCEPT !.ID = aid]
SLOEnvelopes ==
    { Envelope(r, None, None, None, None) : r \in LogoutRequests \cup {"junk"} }
    \cup { Envelope("lo_testuser", "rs1", "sig_c1", "rsa", None), EmptyEnvelope, NilEnvelope }
QueryEnvelopes ==
    { Envelope("query", None, None, None, None),
      Envelope("query", None, "sig_c1", "rsa", None),
      Artifact("art1"), AssertionId("aid1"),
      [EmptyEnvelope EXCEPT !.other = TRUE], EmptyEnvelope, NilEnvelope }

\* the forms posted to the verify endpoint
VerifyForms ==
    { Posted(l, pw, "kA", <<"sso", "redirect">>, <<"1">>) :
        l \in {"testuser", "roland", "nobody"}, pw \in {"qwerty", "dianakra"} }
    \cup { Posted("testuser", "qwerty", "kA", <<"sso", "redirect">>, <<"2">>),
           Posted("testuser", "qwerty", "kA", <<"sso", "redirect">>, <<"1", ":", "2">>),
           Posted("testuser", "qwerty", "kF", <<"sso", "post">>, <<"1">>),
           Posted("testuser", "qwerty", None, <<"sso", "redirect">>, <<"1">>),
           Posted("testuser", "qwerty", "kA", NoStr, <<"1">>),
           Posted("testuser", "qwerty", "kA", <<"sso", "redirect">>, NoStr),
           Posted("testuser", None, "kA", <<"sso", "redirect">>, <<"1">>),
           Posted(None, "qwerty", "kA", <<"sso", "redirect">>, <<"1">>) }

\* a request that comes with the method GET (its envelope is the query
\* string), or with another method (its envelope is the body); without a
\* query string there is no id parameter
Request(path, method, who, m, posted, body, authz) ==
    IF method = "GET"
    THEN Environ(path, method, who[1], IF m.nil THEN NoStr ELSE who[2], m, EmptyEnvelope,
                 posted, body, authz)
    ELSE Environ(path, method, who[1], who[2], EmptyEnvelope, m, posted, body, authz)

\* ------------------------------------------------------------- the actions

\* The handlers that run side by side when the WSGI container gives every
\* request a thread of its own.  Of a handler: op, the callable it runs;
\* pc, the statement it is at; user, the user application resolved; key,
\* login, the key and the user of its request; saml_msg, uid, its local
\* variables; outcome, how it ended.
Threads == {1, 2}
IdleThread ==
    [op |-> "none", pc |-> "done", user |-> None, key |-> None, login |-> None,
     saml_msg |-> NilEnvelope, uid |-> NoStr, outcome |-> "none"]
NoThreads == [t \in Threads |-> IdleThread]

Init ==
    /\ ticket = EmptyDict
    /\ uid2user = EmptyDict
    /\ user2uid = EmptyDict
    /\ rnd = 0
    /\ stored_by = EmptyDict
    /\ last = Blank
    /\ threads = NoThreads
    /\ browser = NoBrowser

\* the response of the request before has gone out
Idle == last.entry = "idle"

\* application handles the request E: the whole handler is one step, taken
\* when the response of the request before has gone out
Handle(E, c) ==
    /\ Idle
    /\ \E R \in {application(E, c)} :
           /\ R.rnd <= MaxSessions
           /\ ticket' = R.ticket
           /\ uid2user' = R.uid2user
           /\ user2uid' = R.user2uid
           /\ rnd' = R.rnd
           /\ stored_by' = R.stored_by
           /\ last' = R.last
           /\ UNCHANGED <<threads, browser>>

\* the transport sends the response off
Deliver ==
    /\ last.entry # "idle"
    /\ last' = Blank
    /\ UNCHANGED <<ticket, uid2user, user2uid, rnd, stored_by, threads, browser>>

\* the codec scenarios to go through for the request E: all of them when
\* the request gets as far as the codec, and otherwise the first alone
\* (the scenario then decides nothing)
Scenarios(E, first, all) ==
    IF application(E, first).last.do_called THEN all ELSE {first}

SSORedirect ==
    /\ Idle
    /\ \E who \in Identities, m \in SSOEnvelopes :
           \E c \in Scenarios(Request(<<"sso", "redirect">>, "GET", who, m, NoPosted, "", None),
                              "post", SSOCodec) :
               Handle(Request(<<"sso", "redirect">>, "GET", who, m, NoPosted, "", None), c)

SSOPost ==
    /\ Idle
    /\ \E who \in Identities, m \in SSOForms, method \in {"GET", "POST", "PUT"} :
           /\ (method = "PUT" => m = NilEnvelope)
           /\ (method = "GET" => m = Envelope("reqA", "rs1", None, None, None))
           /\ \E c \in Scenarios(Request(<<"sso", "post">>, method, who, m, NoPosted, "", None),
                                 "post", SSOCodec) :
                Handle(Request(<<"sso", "post">>, method, who, m, NoPosted, "", None), c)

SSOArtifact ==
    /\ Idle
    /\ \E who \in FewIdentities, m \in QueryEnvelopes, method \in {"GET", "POST"} :
           \E c \in IF Falsy(m) \/ m.SAMLart = None THEN {"post"} ELSE SSOCodec \cup {"error"} :
               Handle(Request(<<"sso", "art">>, method, who, m, NoPosted, "", None), c)

SSOEcp ==
    /\ Idle
    /\ \E who \in FewIdentities, authz \in {None} \cup DOMAIN Authorizations :
           Handle(Request(<<"sso", "ecp">>, "POST", who, EmptyEnvelope, NoPosted, "reqA", authz),
                  "post")

SLORequest ==
    /\ Idle
    /\ \E who \in FewIdentities, m \in SLOEnvelopes, b \in {"redirect", "post", "soap"} :
           /\ (b = "soap" => ~m.nil /\ m.SAMLRequest # None /\ m.Signature = None)
           /\ (b = "post" => m.SAMLRequest \in {"lo_testuser", "junk"} /\ m.Signature = None)
           /\ \E c \in Scenarios(Request(<<"slo", b>>, IF b = "redirect" THEN "GET" ELSE "POST",
                                         who, m, NoPosted,
                                         IF b = "soap" THEN m.SAMLRequest ELSE "", None),
                                 "ok", SLOCodec) :
                Handle(Request(<<"slo", b>>, IF b = "redirect" THEN "GET" ELSE "POST",
                               who, m, NoPosted,
                               IF b = "soap" THEN m.SAMLRequest ELSE "", None), c)

NMIRequest ==
    /\ Idle
    /\ \E who \in FewIdentities, m \in QueryEnvelopes, b \in {"redirect", "post", "art", "soap"} :
           /\ (b = "soap" => m = EmptyEnvelope)
           /\ (b = "post" => m = Envelope("query", None, None, None, None))
           /\ \E c \in IF b = "art" /\ ~Falsy(m) /\ m.SAMLart # None THEN QueryCodec
                       ELSE Scenarios(Request(<<"mni", b>>, IF b = "redirect" THEN "GET" ELSE "POST",
                                              who, m, NoPosted, "query", None), "ok", QueryCodec) :
                Handle(Request(<<"mni", b>>, IF b = "redirect" THEN "GET" ELSE "POST",
                               who, m, NoPosted, "query", None), c)

SoapQuery ==
    /\ Idle
    /\ \E who \in FewIdentities, c \in QueryCodec, p \in {"ars", "nim", "aqs", "attr"} :
           Handle(Request(<<p>>, "POST", who, EmptyEnvelope, NoPosted, "query", None), c)

AIDRRequest ==
    /\ Idle
    /\ \E who \in FewIdentities, m \in QueryEnvelopes, method \in {"GET", "POST", "PUT"} :
           /\ (method = "PUT" => m = NilEnvelope)
           /\ \E c \in Scenarios(Request(<<"airs">>, method, who, m, NoPosted, "", None),
                                 "ok", QueryCodec) :
                Handle(Request(<<"airs">>, method, who, m, NoPosted, "", None), c)

Verify ==
    /\ Idle
    /\ \E who \in FewIdentities, posted \in VerifyForms :
           Handle(Request(<<"verify">>, "POST", who, EmptyEnvelope, posted, "", None), "ok")

Metadata ==
    /\ Idle
    /\ \E who \in FewIdentities, c \in MetadataCodec :
           Handle(Request(<<"idp.xml">>, "GET", who, EmptyEnvelope, NoPosted, "", None), c)

\* the paths asked of staticfile: a file under static/, a file of the
\* root, a file of the directory beside the root whose name begins with
\* the root's, a file elsewhere
StaticPaths ==
    { <<"static", "x">>,
      <<"static", "..", "x">>,
      <<"static", "..", "..", "idp_old", "x">>,
      <<"static", "..", "..", "..", "etc", "x">> }

Static ==
    /\ Idle
    /\ \E who \in FewIdentities, c \in StaticCodec, path \in StaticPaths :
           Handle(Request(path, "GET", who, EmptyEnvelope, NoPosted, "", None), c)

Unrouted ==
    /\ Idle
    /\ \E who \in FewIdentities :
           Handle(Request(<<"nowhere">>, "GET", who, EmptyEnvelope, NoPosted, "", None), "ok")

\* Cookie headers that do_verify did not set: an idpauthn value that is
\* not base64, a payload without ":", a reference that is not registered,
\* the reference of the other registered method, a reference of more than
\* one part, an empty reference, a session id that was never given out
OddCookies ==
    { [raw |-> TRUE, idpauthn |-> <<"!">>],
      [raw |-> TRUE, idpauthn |-> b64encode(rndstr(0))],
      AuthnCookie(rndstr(0), <<"9">>),
      AuthnCookie(rndstr(0), <<"2">>),
      AuthnCookie(rndstr(0), <<"1", ":", "2">>),
      AuthnCookie(rndstr(0), NoStr),
      AuthnCookie(<<"s0">>, <<"1">>) }

\* a request to sso/redirect with such a cookie
OddCookie ==
    /\ Idle
    /\ \E kaka \in OddCookies :
           Handle(Request(<<"sso", "redirect">>, "GET", <<kaka, NoStr>>,
                          Envelope("reqA", "rs1", None, None, None), NoPosted, "", None),
                  "post")

\* paths that go on after the name of an entry, or that hold more before it
LongPaths ==
    { <<"sso", "post", "x">>, <<"sso", "redirect", "x">>, <<"sso", "art", "x">>,
      <<"slo", "redirect", "x">>, <<"slo", "post", "x">>, <<"slo", "soap", "x">>,
      <<"mni", "post", "x">>, <<"mni", "redirect", "x">>, <<"mni", "art", "x">>,
      <<"mni", "soap", "x">>, <<"nim", "x">>, <<"verify", "x">>,
      <<"x", "airs">>, <<"x", "sso", "ecp">>, <<"sso", "x">>,
      <<"sso", "post", "sso", "redirect">>, <<"verify", "slo", "soap">> }

\* a request without an envelope to such a path
LongPath ==
    /\ Idle
    /\ \E who \in FewIdentities, path \in LongPaths :
           Handle(Request(path, "GET", who, EmptyEnvelope, NoPosted, "", None), "ok")

Next ==
    \/ SSORedirect
    \/ SSOPost
    \/ SSOArtifact
    \/ SSOEcp
    \/ SLORequest
    \/ NMIRequest
    \/ SoapQuery
    \/ AIDRRequest
    \/ Verify
    \/ Metadata
    \/ Static
    \/ Unrouted
    \/ OddCookie
    \/ LongPath
    \/ Deliver

Spec == Init /\ [][Next]_vars

\* ------------------------------------------------- handlers side by side

\* the ticket of the request reqA as _store_request leaves it
PendingTicket == [Envelope("reqA", "rs1", None, None, None) EXCEPT !.req_info = "reqA"]

\* what a handler starts with: a resumption at sso/redirect or sso/post
\* with the key kA and the id of the first session, a logout of testuser,
\* a login of testuser
Handler(op) ==
    [IdleThread EXCEPT !.op = op, !.pc = "start",
                       !.key = IF op \in {"SSO.redirect", "SSO.post"} THEN "kA" ELSE None,
                       !.saml_msg = IF op \in {"SSO.redirect", "SSO.post"}
                                    THEN Envelope(None, None, None, None, "kA")
                                    ELSE NilEnvelope,
                       !.login = IF op \in {"SLO.do", "do_verify"} THEN "testuser" ELSE None]

\* two requests arrive together: the ticket kA is pending or not, testuser
\* has the first session or none
InitConc ==
    /\ \E pending \in BOOLEAN :
           /\ ticket = IF pending THEN Put(EmptyDict, "kA", PendingTicket) ELSE EmptyDict
           /\ stored_by = IF pending
                          THEN Put(EmptyDict, "kA", [NoStorer EXCEPT !.entry = "SSO.redirect"])
                          ELSE EmptyDict
    /\ \E logged_in \in BOOLEAN :
           /\ uid2user = IF logged_in THEN Put(EmptyDict, rndstr(0), "testuser") ELSE EmptyDict
           /\ user2uid = IF logged_in THEN Put(EmptyDict, "testuser", rndstr(0)) ELSE EmptyDict
           /\ rnd = IF logged_in THEN 1 ELSE 0
    /\ last = Blank
    /\ threads \in [Threads -> {Handler(op) : op \in {"SSO.redirect", "SSO.post", "SLO.do", "do_verify"}}]
    /\ browser = NoBrowser

\* the handler t goes to the statement pc with its record changed to r
Goto(t, r, pc) ==
    /\ threads' = [threads EXCEPT ![t] = [r EXCEPT !.pc = pc]]
    /\ UNCHANGED browser
\* the handler t ends
Finish(t, r, outcome) == Goto(t, [r EXCEPT !.outcome = outcome], "done")

\* application, lines 1055-1086: the user of the id parameter is read from
\* uid2user, and the callable of the path is called
Dispatch(t) ==
    /\ threads[t].pc = "start"
    /\ LET user == IF threads[t].key # None /\ rndstr(0) \in DOMAIN uid2user
                   THEN uid2user[rndstr(0)] ELSE None
           first == CASE threads[t].op \in {"SSO.redirect", "SSO.post"} -> "lookup"
                      [] threads[t].op = "SLO.do" -> "test_lid"
                      [] OTHER -> "rndstr"
       IN  Goto(t, [threads[t] EXCEPT !.user = user], first)
    /\ UNCHANGED <<ticket, uid2user, user2uid, rnd, stored_by, last>>

\* SSO.redirect 420-421, SSO.post 471-472: saml_msg = IDP.ticket[_key]
LookupTicket(t) ==
    /\ threads[t].pc = "lookup"
    /\ IF threads[t].key \in DOMAIN ticket
       THEN Goto(t, [threads[t] EXCEPT !.saml_msg = ticket[threads[t].key]], "delete")
       ELSE Goto(t, threads[t], "except")
    /\ UNCHANGED <<ticket, uid2user, user2uid, rnd, stored_by, last>>

\* SSO.redirect 423 and 460-461, SSO.post 474 and 489-490: del
\* IDP.ticket[_key], and operation on the ticket when the key was there
DeleteTicket(t) ==
    /\ threads[t].pc = "delete"
    /\ IF threads[t].key \in DOMAIN ticket
       THEN /\ ticket' = Remove(ticket, threads[t].key)
            /\ stored_by' = Remove(stored_by, threads[t].key)
            /\ Finish(t, threads[t], "operation")
       ELSE /\ Goto(t, threads[t], "except")
            /\ UNCHANGED <<ticket, stored_by>>
    /\ UNCHANGED <<uid2user, user2uid, rnd, last>>

\* SSO.redirect 424-455, SSO.post 475-484: the KeyError branch, on
\* saml_msg as it is bound by then
AfterKeyErrorStep(t) ==
    /\ threads[t].pc = "except"
    /\ LET r == threads[t]
       IN  IF r.saml_msg.SAMLRequest = None
           THEN IF r.op = "SSO.redirect"
                THEN Finish(t, r, "BadRequest")
                ELSE Finish(t, r, "exception")
           ELSE IF Authenticated(r) /\ ~ForceAuthn(Message(r.saml_msg.SAMLRequest))
           THEN Finish(t, r, "operation")
           ELSE Goto(t, r, "store")
    /\ UNCHANGED <<ticket, uid2user, user2uid, rnd, stored_by, last>>

\* SSO._store_request 405-409 and not_authn: the login page
StoreRequest(t) ==
    /\ threads[t].pc = "store"
    /\ LET key == Sha1(threads[t].saml_msg.SAMLRequest)
       IN  /\ ticket' = Put(ticket, key, threads[t].saml_msg)
           /\ stored_by' = Put(stored_by, key,
                               [entry |-> threads[t].op, forced |-> FALSE])
    /\ Finish(t, threads[t], "login")
    /\ UNCHANGED <<uid2user, user2uid, rnd, last>>

\* SLO.do 668: if lid in cache.user2uid
TestLid(t) ==
    /\ threads[t].pc = "test_lid"
    /\ IF threads[t].login \in DOMAIN user2uid
       THEN Goto(t, threads[t], "read_uid")
       ELSE Finish(t, threads[t], "Response")
    /\ UNCHANGED <<ticket, uid2user, user2uid, rnd, stored_by, last>>

\* SLO.do 669: uid = cache.user2uid[lid]
ReadUid(t) ==
    /\ threads[t].pc = "read_uid"
    /\ IF threads[t].login \in DOMAIN user2uid
       THEN Goto(t, [threads[t] EXCEPT !.uid = user2uid[threads[t].login]], "test_uid")
       ELSE Finish(t, threads[t], "exception")
    /\ UNCHANGED <<ticket, uid2user, user2uid, rnd, stored_by, last>>

\* SLO.do 670: if uid in cache.uid2user
TestUid(t) ==
    /\ threads[t].pc = "test_uid"
    /\ IF threads[t].uid \in DOMAIN uid2user
       THEN Goto(t, threads[t], "del_uid")
       ELSE Goto(t, threads[t], "del_lid")
    /\ UNCHANGED <<ticket, uid2user, user2uid, rnd, stored_by, last>>

\* SLO.do 671: del cache.uid2user[uid]
DelUid(t) ==
    /\ threads[t].pc = "del_uid"
    /\ IF threads[t].uid \in DOMAIN uid2user
       THEN /\ uid2user' = Remove(uid2user, threads[t].uid)
            /\ Goto(t, threads[t], "del_lid")
       ELSE /\ Finish(t, threads[t], "exception")
            /\ UNCHANGED uid2user
    /\ UNCHANGED <<ticket, user2uid, rnd, stored_by, last>>

\* SLO.do 672: del cache.user2uid[lid], and the logout response after it
DelLid(t) ==
    /\ threads[t].pc = "del_lid"
    /\ IF threads[t].login \in DOMAIN user2uid
       THEN /\ user2uid' = Remove(user2uid, threads[t].login)
            /\ Finish(t, threads[t], "Response")
       ELSE /\ Finish(t, threads[t], "exception")
            /\ UNCHANGED user2uid
    /\ UNCHANGED <<ticket, uid2user, rnd, stored_by, last>>

\* do_verify 619: uid = rndstr(24)
NewUid(t) ==
    /\ threads[t].pc = "rndstr"
    /\ rnd < Len(RndTable)
    /\ rnd' = rnd + 1
    /\ Goto(t, [threads[t] EXCEPT !.uid = rndstr(rnd)], "put_uid")
    /\ UNCHANGED <<ticket, uid2user, user2uid, stored_by, last>>

\* do_verify 620: cache.uid2user[uid] = user
PutUid(t) ==
    /\ threads[t].pc = "put_uid"
    /\ uid2user' = Put(uid2user, threads[t].uid, threads[t].login)
    /\ Goto(t, threads[t], "put_lid")
    /\ UNCHANGED <<ticket, user2uid, rnd, stored_by, last>>

\* do_verify 621: cache.user2uid[user] = uid, and the redirect after it
PutLid(t) ==
    /\ threads[t].pc = "put_lid"
    /\ user2uid' = Put(user2uid, threads[t].login, threads[t].uid)
    /\ Finish(t, threads[t], "Redirect")
    /\ UNCHANGED <<ticket, uid2user, rnd, stored_by, last>>

NextConc ==
    \E t \in Threads :
        \/ Dispatch(t)
        \/ LookupTicket(t)
        \/ DeleteTicket(t)
        \/ AfterKeyErrorStep(t)
        \/ StoreRequest(t)
        \/ TestLid(t)
        \/ ReadUid(t)
        \/ TestUid(t)
        \/ DelUid(t)
        \/ DelLid(t)
        \/ NewUid(t)
        \/ PutUid(t)
        \/ PutLid(t)

SpecConc == InitConc /\ [][NextConc]_vars

\* ------------------------------------------------------------ login flow

\* application has handled a request and left R: the stores and the
\* response
Serve(R) ==
    /\ R.rnd <= MaxSessions
    /\ ticket' = R.ticket
    /\ uid2user' = R.uid2user
    /\ user2uid' = R.user2uid
    /\ rnd' = R.rnd
    /\ stored_by' = R.stored_by
    /\ last' = R.last
    /\ UNCHANGED threads

\* the browser has no session and no cookie, and the stores are empty
InitLogin ==
    /\ ticket = EmptyDict
    /\ uid2user = EmptyDict
    /\ user2uid = EmptyDict
    /\ rnd = 0
    /\ stored_by = EmptyDict
    /\ last = Blank
    /\ threads = NoThreads
    /\ browser = [NoBrowser EXCEPT !.pc = "start"]

\* SSO.redirect 411-461: the anonymous browser sends its AuthnRequest to
\* sso/redirect and is given the login page
BrowserSubmits ==
    /\ browser.pc = "start"
    /\ \E R \in {application(Request(<<"sso", "redirect">>, "GET", <<NoCookie, NoStr>>,
                                     Envelope("reqA", "rs1", None, None, None), NoPosted,
                                     "", None), "post")} :
           /\ Serve(R)
           /\ browser' = [browser EXCEPT
                             !.pc = IF R.last.form # NoForm THEN "login" ELSE "failed",
                             !.form = R.last.form]

\* do_verify 603-631: the browser posts the login form with the right
\* password and is given the cookie and the redirect
BrowserPosts ==
    /\ browser.pc = "login"
    /\ \E f \in {browser.form} :
       \E R \in {application(Request(<<"verify">>, "POST", <<NoCookie, NoStr>>, EmptyEnvelope,
                                     Posted("testuser", PASSWD["testuser"], f.key,
                                            f.redirect_uri, f.authn_reference), "", None),
                             "ok")} :
           /\ Serve(R)
           /\ browser' = IF R.last.outcome = "Redirect"
                         THEN [browser EXCEPT !.pc = "redirect",
                                              !.location = R.last.location,
                                              !.cookie = [raw |-> TRUE,
                                                          idpauthn |-> R.last.set_cookie.value]]
                         ELSE [browser EXCEPT !.pc = "failed"]

\* application 1028-1086 and SSO.redirect: the browser follows the
\* redirect, with its cookie, and takes the response
BrowserFollows ==
    /\ browser.pc = "redirect"
    /\ \E l \in {browser.location} :
       \E R \in {application(Request(l.uri, "GET", <<browser.cookie, l.id>>,
                                     Envelope(None, None, None, None, l.key), NoPosted,
                                     "", None), "post")} :
           /\ Serve(R)
           /\ browser' = [browser EXCEPT !.pc = "done", !.reply = R.last]

\* what other clients send to sso/redirect meanwhile: none of them
\* presents a key
OtherEnvelopes ==
    { Envelope("reqA", "rs2", None, None, None),
      Envelope("reqA", "rs1", "sig_bad", None, None),
      Envelope("reqK", "rs1", None, None, None) }

\* another client, not logged in, sends an AuthnRequest
OtherSubmits ==
    /\ browser.pc # "none"
    /\ \E m \in OtherEnvelopes :
       \E R \in {application(Request(<<"sso", "redirect">>, "GET", <<NoCookie, NoStr>>, m,
                                     NoPosted, "", None), "post")} :
           /\ Serve(R)
           /\ UNCHANGED browser

\* another user logs in, while a session id is left for the browser
OtherLogsIn ==
    /\ rnd + 1 < MaxSessions \/ browser.pc \in {"redirect", "done", "failed"}
    /\ \E R \in {application(Request(<<"verify">>, "POST", <<NoCookie, NoStr>>, EmptyEnvelope,
                                     Posted("roland", PASSWD["roland"], "kK",
                                            <<"sso", "redirect">>, <<"1">>), "", None),
                             "ok")} :
           /\ Serve(R)
           /\ UNCHANGED browser

\* another user is logged out
OtherLogsOut ==
    /\ browser.pc # "none"
    /\ \E R \in {application(Request(<<"slo", "soap">>, "POST", <<NoCookie, NoStr>>,
                                     Envelope("lo_roland", None, None, None, None), NoPosted,
                                     "lo_roland", None), "ok")} :
           /\ Serve(R)
           /\ UNCHANGED browser

NextLogin ==
    \/ BrowserSubmits
    \/ BrowserPosts
    \/ BrowserFollows
    \/ OtherSubmits
    \/ OtherLogsIn
    \/ OtherLogsOut

\* requests are served one after the other, and the browser goes on
\* whenever it has a response to go on with
SpecLogin ==
    /\ InitLogin
    /\ [][NextLogin]_vars
    /\ WF_vars(BrowserSubmits)
    /\ WF_vars(BrowserPosts)
    /\ WF_vars(BrowserFollows)

\* ------------------------------------------------------------ properties

\* the service entries of AUTHN_URLS
ServiceEntries == {AUTHN_URLS[i].name : i \in 1..Len(AUTHN_URLS)}

\* saml_msg carries Signature and SigAlg
Signed(saml_msg) == ~saml_msg.nil /\ saml_msg.Signature # None /\ saml_msg.SigAlg # None

\* one of the certificates of the issuer of saml_msg verifies its signature
Verifies(saml_msg) ==
    \E i \in 1..Len(Certs(Message(saml_msg.SAMLRequest).issuer)) :
        verify_redirect_signature(saml_msg, Certs(Message(saml_msg.SAMLRequest).issuer)[i])

\* saml_msg holds an AuthnRequest the codec parses
HoldsAuthnRequest(saml_msg) ==
    ~saml_msg.nil /\ saml_msg.SAMLRequest # None /\ ParseAuthn(saml_msg.SAMLRequest) = "ok"

\* C1: a ticket is filed under the digest of its raw SAMLRequest alone, so
\* that storing the same request again gives the same key and one entry;
\* a ticket that the lookup of SSO.redirect or SSO.post hands out was in
\* the store under the key presented and is gone after the step; and a key
\* comes into the store only by the _store_request of that step, so that a
\* later request with the same key gets the ticket only when it was stored
\* again in between.
C1_TicketKeyAndSingleUse ==
    [][ /\ \A k \in DOMAIN ticket' : k = Sha1(ticket'[k].SAMLRequest)
        /\ \A k1, k2 \in DOMAIN ticket' :
               ticket'[k1].SAMLRequest = ticket'[k2].SAMLRequest => k1 = k2
        /\ last'.stored # None =>
               /\ last'.stored = Sha1(last'.received.SAMLRequest)
               /\ last'.stored \in DOMAIN ticket'
        /\ last'.taken # None =>
               /\ last'.taken = last'.received.key
               /\ last'.taken \in DOMAIN ticket
               /\ last'.taken \notin DOMAIN ticket'
        /\ \A k \in DOMAIN ticket' \ DOMAIN ticket : last'.stored = k
      ]_vars

\* C1, its case: a resumption got a ticket and went on to the assertion
C1_TicketHandedOut ==
    /\ last.taken # None
    /\ last.taken \notin DOMAIN ticket
    /\ last.assertion # NoAssertion

\* C2, as claimed: once SLO.do has taken user u out of the Session Cache, u
\* is not in user2uid and no session id of uid2user resolves to u, however
\* often u logged in before.
C2_LogoutLeavesNoSession ==
    last.removed # None =>
        /\ last.removed \notin DOMAIN user2uid
        /\ \A s \in DOMAIN uid2user : uid2user[s] # last.removed

\* C3, as claimed: in every state uid2user is the inverse of user2uid, so
\* that each user has at most one session id.
C3_OneSessionPerUser ==
    /\ \A s \in DOMAIN uid2user :
           uid2user[s] \in DOMAIN user2uid /\ user2uid[uid2user[s]] = s
    /\ \A u \in DOMAIN user2uid :
           user2uid[u] \in DOMAIN uid2user /\ uid2user[user2uid[u]] = u

\* C4, as claimed: the user of a request is the user of the live session
\* its idpauthn cookie names; when the cookie gives none, the user of the
\* live session its id parameter names; and else nobody.
C4_CookieThenId ==
    last.entry \notin {"idle", "metadata"} =>
        last.user = IF last.cookie_user # None THEN last.cookie_user ELSE last.id_user

\* C5, as claimed: for a request without a user, no service entry of
\* AUTHN_URLS runs its do operation, and nothing leaves the Session Cache.
C5_AnonymousNeverServed ==
    (last.user = None /\ last.entry \in ServiceEntries) =>
        ~last.do_called /\ last.removed = None

\* C5, amended: the gate is in SSO.redirect and SSO.post alone.  A request
\* without a user that brings them an AuthnRequest the codec parses (on
\* sso/redirect with a signature that verifies, if it has one) and not the
\* key of a pending ticket has its envelope stored and gets the login page
\* with the key of that ticket, or Unauthorized when no method is usable;
\* SSO.do does not run, no assertion is built and the Session Cache stays.
\* Without a user a do operation runs only at the other service entries, or
\* for a request that took a pending ticket.
C5_AnonymousSSOGetsLogin ==
    [][ /\ ( /\ last'.user = None
             /\ last'.entry \in {"SSO.redirect", "SSO.post"}
             /\ HoldsAuthnRequest(last'.received)
             /\ (last'.received.key = None \/ last'.received.key \notin DOMAIN ticket)
             /\ (last'.entry = "SSO.redirect" /\ Signed(last'.received)
                    => Verifies(last'.received)) )
           => /\ ~last'.do_called
              /\ last'.assertion = NoAssertion
              /\ last'.stored = Sha1(last'.received.SAMLRequest)
              /\ last'.stored \in DOMAIN ticket'
              /\ uid2user' = uid2user /\ user2uid' = user2uid
              /\ \/ /\ last'.outcome = "Response"
                    /\ last'.form.action = "/verify"
                    /\ last'.form.key = last'.stored
                 \/ /\ last'.outcome = "Unauthorized"
                    /\ last'.msg = "No usable authentication method"
        /\ (last'.user = None /\ last'.do_called)
           => \/ last'.entry \in ServiceEntries \ {"SSO.redirect", "SSO.post"}
              \/ last'.taken # None
      ]_vars

\* C5, its case: sso/post has sent a caller without a user to the login
\* page, the ticket is in the store
C5_AnonymousAtLogin ==
    /\ last.entry = "SSO.post"
    /\ last.user = None
    /\ last.outcome = "Response"
    /\ last.form.action = "/verify"
    /\ last.stored # None
    /\ last.stored \in DOMAIN ticket
    /\ ~last.do_called

\* C6, as claimed: in no state is an assertion issued for a request to
\* sso/redirect that carries Signature and SigAlg and that no certificate
\* of its issuer verifies.
C6_NoAssertionUnverified ==
    ( /\ last.entry = "SSO.redirect"
      /\ Signed(last.received)
      /\ HoldsAuthnRequest(last.received)
      /\ ~Verifies(last.received) )
    => last.assertion = NoAssertion

\* C6, amended: the signature is checked when the request does not present
\* the key of a pending ticket.  Such a request with Signature and SigAlg
\* goes on (to the login flow or to SSO.do) when one of the issuer's
\* certificates verifies it; when none does it is answered with
\* BadRequest("Message signature verification failure"), the Ticket Store
\* stays as it is, SSO.do does not run and no assertion is built.  So every
\* signed ticket that SSO.redirect has stored is a verified one.
C6_SignedRedirect ==
    [][ /\ ( /\ last'.entry = "SSO.redirect"
             /\ Signed(last'.received)
             /\ HoldsAuthnRequest(last'.received)
             /\ (last'.received.key = None \/ last'.received.key \notin DOMAIN ticket) )
           => IF Verifies(last'.received)
              THEN /\ last'.outcome # "BadRequest"
                   /\ last'.stored # None \/ last'.do_called
              ELSE /\ last'.outcome = "BadRequest"
                   /\ last'.msg = "Message signature verification failure"
                   /\ last'.stored = None
                   /\ ticket' = ticket
                   /\ ~last'.do_called
                   /\ last'.assertion = NoAssertion
        /\ \A k \in DOMAIN ticket' :
               (stored_by'[k].entry = "SSO.redirect" /\ Signed(ticket'[k])) => Verifies(ticket'[k])
      ]_vars

\* C6, its case: a signed request that only the second certificate of the
\* issuer verifies has been served with an assertion
C6_SecondCertificateAccepted ==
    /\ last.entry = "SSO.redirect"
    /\ last.received.Signature = "sig_c2"
    /\ last.taken = None
    /\ last.assertion # NoAssertion

\* C7, as claimed: every request ends in a rendered outcome; no exception
\* leaves the handler.
C7_NoExceptionEscapes == last.outcome # "exception"

\* the field a binding entry cannot do without
Mandatory(entry, saml_msg) ==
    IF entry \in {"SSO.artifact", "NMI.artifact"} THEN saml_msg.SAMLart
    ELSE IF entry = "AIDR.uri" THEN saml_msg.ID
    ELSE saml_msg.SAMLRequest

\* C8, as claimed: at every binding entry an envelope that is absent or
\* empty or lacks the mandatory field, and that took no ticket, is
\* answered with BadRequest, and the do operation does not run.
C8_MissingFieldIsBadRequest ==
    ( /\ last.entry \in ServiceEntries
      /\ last.taken = None
      /\ (Falsy(last.received) \/ Mandatory(last.entry, last.received) = None) )
    => /\ last.outcome = "BadRequest"
       /\ ~last.do_called

\* the request of the login scenario: GET sso/redirect without a user and
\* without a key, with an AuthnRequest the codec parses (and a signature
\* that verifies, if it has one)
AnonymousAuthnRequest(l) ==
    /\ l.entry = "SSO.redirect"
    /\ l.user = None
    /\ HoldsAuthnRequest(l.received)
    /\ l.received.key = None
    /\ (Signed(l.received) => Verifies(l.received))

\* C9, as claimed: that request stores its ticket and gets the login form,
\* whose action is the verify endpoint and whose key is the key of the
\* ticket; no assertion is built, no session made or removed.
C9_LoginFormAlways ==
    AnonymousAuthnRequest(last)
    => /\ last.stored = Sha1(last.received.SAMLRequest)
       /\ last.stored \in DOMAIN ticket
       /\ last.outcome = "Response"
       /\ last.form.action = "/verify"
       /\ last.form.key = last.stored
       /\ last.assertion = NoAssertion
       /\ last.minted = NoStr /\ last.removed = None

\* C9, amended: that request stores exactly one ticket, under the digest
\* of its SAMLRequest; no assertion is built and the Session Cache stays.
\* When the broker has a method for the requested authentication context
\* the answer is the login form, whose action is the verify endpoint and
\* whose key is the key of that ticket; when it has none the answer is
\* Unauthorized("No usable authentication method").
C9_LoginFormWhenMethodUsable ==
    [][ AnonymousAuthnRequest(last')
        => /\ last'.stored = Sha1(last'.received.SAMLRequest)
           /\ DOMAIN ticket' = DOMAIN ticket \cup {last'.stored}
           /\ \A k \in DOMAIN ticket \ {last'.stored} : ticket'[k] = ticket[k]
           /\ ticket'[last'.stored].SAMLRequest = last'.received.SAMLRequest
           /\ last'.assertion = NoAssertion /\ ~last'.do_called
           /\ uid2user' = uid2user /\ user2uid' = user2uid
           /\ IF Len(Pick(Message(last'.received.SAMLRequest).requested_authn_context)) > 0
              THEN /\ last'.outcome = "Response"
                   /\ last'.form.action = "/verify"
                   /\ last'.form.key = last'.stored
                   /\ last'.form.redirect_uri = last'.path
              ELSE /\ last'.outcome = "Unauthorized"
                   /\ last'.msg = "No usable authentication method"
                   /\ last'.form = NoForm
      ]_vars

\* C9, its case: the login form has gone out with the key of the ticket
\* of the request
C9_LoginFormSent ==
    /\ AnonymousAuthnRequest(last)
    /\ last.outcome = "Response"
    /\ last.form.key = "kA"
    /\ "kA" \in DOMAIN ticket

\* the verify form has what do_verify reads, and its login and password
\* match PASSWD
GoodLogin(query) ==
    /\ query.login \in DOMAIN PASSWD
    /\ query.password = PASSWD[query.login]
    /\ query.key # None /\ query.redirect_uri # NoStr /\ query.authn_reference # NoStr

\* C10: a POST to the verify endpoint whose login and password match, with
\* key, redirect_uri and authn_reference in the form, enters the user in
\* the Session Cache under a session id that was not there, answers with
\* the redirect to redirect_uri?id=<uid>&key=<key> with the posted key, and
\* sets the idpauthn cookie to uid:authn_reference; the Ticket Store stays.
C10_VerifyMintsSession ==
    [][ (last'.entry = "do_verify" /\ GoodLogin(last'.posted))
        => /\ last'.minted # NoStr
           /\ last'.minted \notin DOMAIN uid2user
           /\ uid2user' = Put(uid2user, last'.minted, last'.posted.login)
           /\ user2uid' = Put(user2uid, last'.posted.login, last'.minted)
           /\ last'.outcome = "Redirect"
           /\ last'.location.uri = last'.posted.redirect_uri
           /\ last'.location.id = last'.minted
           /\ last'.location.key = last'.posted.key
           /\ last'.set_cookie.name = "idpauthn"
           /\ IsB64(last'.set_cookie.value)
           /\ b64decode(last'.set_cookie.value)
                = last'.minted \o <<":">> \o last'.posted.authn_reference
           /\ ticket' = ticket
      ]_vars

\* C10, its case: a login has been verified and the redirect sent
C10_LoginVerified ==
    /\ last.entry = "do_verify"
    /\ GoodLogin(last.posted)
    /\ last.outcome = "Redirect"
    /\ last.minted \in DOMAIN uid2user

\* the codec scenarios in which SSO.do gets its response rendered
SSORendered == {"post", "redirect", "artifact"}

\* C11, as claimed: when a logged-in user comes back to sso/redirect with
\* the key of a stored ticket, the ticket is taken out of the store and,
\* where the codec renders, the response carries the assertion for that
\* user and the stored request.
C11_ResumptionRendersAssertion ==
    (/\ last.entry = "SSO.redirect"
     /\ last.user # None
     /\ last.taken # None
     /\ last.codec \in SSORendered) =>
        /\ last.taken \notin DOMAIN ticket
        /\ last.outcome \in {"Response", "Redirect"}
        /\ last.assertion # NoAssertion
        /\ last.assertion.userid = last.user
        /\ Sha1(last.assertion.request) = last.taken

\* the request went to SLO.do with a LogoutRequest that has a name id
SLOWithNameId(l) ==
    /\ l.entry \in {"SLO.redirect", "SLO.post", "SLO.soap"}
    /\ l.do_called
    /\ l.received.SAMLRequest \in LogoutRequests
    /\ HasNameId(l.received.SAMLRequest)

\* C12: SLO.do for a name id always calls remove_authn_statements and
\* leaves the local identity out of user2uid; when the identity had no
\* entry in the Session Cache, both maps stay as they were and nobody is
\* recorded as removed, and when the removal and the codec succeed the
\* logout response is made and rendered.  The same request once more is
\* such a step, so repeating it changes nothing.
C12_LogoutWithoutSession ==
    [][ SLOWithNameId(last') =>
          LET lid == find_local_id(last'.received.SAMLRequest)
          IN  /\ lid \notin DOMAIN user2uid'
              /\ last'.authn_removed # "none"
              /\ lid \notin DOMAIN user2uid =>
                    /\ user2uid' = user2uid
                    /\ uid2user' = uid2user
                    /\ last'.removed = None
                    /\ last'.codec = "ok" =>
                          /\ last'.authn_removed = "ok"
                          /\ last'.logout_response
                          /\ last'.outcome \in {"Response", "Redirect"}
      ]_vars

\* C12, its case: a logout for testuser, who has no session while another
\* user has one, ends with the logout response
C12_LoggedOutWithoutSession ==
    /\ SLOWithNameId(last)
    /\ find_local_id(last.received.SAMLRequest) = "testuser"
    /\ last.removed = None
    /\ last.authn_removed = "ok"
    /\ last.outcome \in {"Response", "Redirect"}
    /\ DOMAIN user2uid = {"roland"}

\* C13, as claimed: when SLO.do finds no Session Cache entry for the name
\* id and remove_authn_statements raises KeyError, the answer is the
\* rendered "Unknown session" error, and it is not a server error.
C13_UnknownSessionNotServerError ==
    (/\ SLOWithNameId(last)
     /\ last.removed = None
     /\ last.authn_removed = "KeyError") =>
        /\ last.msg = "Unknown session: %s"
        /\ last.outcome \notin {"ServiceError", "exception"}

\* C14, as claimed: when SLO.do has taken the user out of the Session
\* Cache and remove_authn_statements then raises KeyError, the rendered
\* answer is the "Unknown session" error, no logout response is made, no
\* cookie is deleted, and the user stays out of the cache.
C14_PartialLogoutReported ==
    (/\ SLOWithNameId(last)
     /\ last.removed # None
     /\ last.authn_removed = "KeyError") =>
        /\ last.outcome = "ServiceError"
        /\ last.msg = "Unknown session: %s"
        /\ ~last.logout_response
        /\ ~last.del_cookie
        /\ last.removed \notin DOMAIN user2uid

\* the handlers of SpecConc that have come to operation, each with the
\* envelope of the ticket
Consumers ==
    {t \in Threads : /\ threads[t].op \in {"SSO.redirect", "SSO.post"}
                     /\ threads[t].outcome = "operation"
                     /\ threads[t].saml_msg = PendingTicket}

\* C15, as claimed: of two resumptions that present the key of the same
\* stored ticket and run interleaved, at most one gets the stored envelope
\* and goes on to operation with it.
C15_TicketConsumedOnce == Cardinality(Consumers) <= 1

\* C16, as claimed: when an SLO.do for testuser runs interleaved with
\* another SLO.do or a do_verify for testuser, no handler ends in an
\* exception, and when both have ended user2uid[u] = s implies
\* uid2user[s] = u.
C16_SessionCacheSafe ==
    (/\ \A t \in Threads : threads[t].op \in {"SLO.do", "do_verify"}
     /\ \E t \in Threads : threads[t].op = "SLO.do") =>
        /\ \A t \in Threads : threads[t].outcome # "exception"
        /\ (\A t \in Threads : threads[t].pc = "done") =>
               \A u \in DOMAIN user2uid :
                   /\ user2uid[u] \in DOMAIN uid2user
                   /\ uid2user[user2uid[u]] = u

\* authentication context references a cookie can be made with: plain,
\* with ":" inside, ":" alone, empty
Refs == {<<"1">>, <<"2">>, <<"9">>, <<"1", ":", "2">>, <<":", "1">>, <<":">>, NoStr}

\* C17: for every session id of the Session Cache and every reference,
\* info_from_cookie of the cookie value set_cookie makes of the two gives
\* the user of that session id and exactly that reference; and the cookie
\* do_verify has just set decodes to the user of the session id it made
\* and to the reference that was posted.
C17_CookieRoundTrip ==
    /\ \A uid \in DOMAIN uid2user, ref \in Refs :
           info_from_cookie([raw |-> TRUE,
                             idpauthn |-> set_cookie("idpauthn", <<uid, ref>>).value])
             = [user |-> uid2user[uid], ref |-> ref, exc |-> None]
    /\ (last.set_cookie # NoSetCookie /\ last.minted \in DOMAIN uid2user) =>
           info_from_cookie([raw |-> TRUE, idpauthn |-> last.set_cookie.value])
             = [user |-> uid2user[last.minted], ref |-> last.posted.authn_reference,
                exc |-> None]

\* C17, its case: do_verify has set the cookie for a reference with ":"
\* inside, and the cookie decodes to the user and to that reference
C17_CookieWithColonDecoded ==
    /\ last.entry = "do_verify"
    /\ last.set_cookie # NoSetCookie
    /\ last.posted.authn_reference = <<"1", ":", "2">>
    /\ last.minted \in DOMAIN uid2user
    /\ info_from_cookie([raw |-> TRUE, idpauthn |-> last.set_cookie.value])
         = [user |-> "testuser", ref |-> <<"1", ":", "2">>, exc |-> None]

\* C18, as claimed: whatever Cookie header a request comes with, decoding
\* it raises nothing: application does not end with an exception before
\* the request is routed.
C18_CookieDecodingLenient ==
    ~(/\ last.entry = "application"
      /\ last.outcome = "exception"
      /\ last.msg \in {"binascii.Error", "ValueError", "KeyError"})

\* the table application scans for a request of the user
TableFor(user) == IF user = None THEN NON_AUTHN_URLS \o AUTHN_URLS ELSE AUTHN_URLS

\* C19: a request that application routes goes to the callable of the
\* first row, in table order, whose pattern matches its path (sso/redirect
\* to SSO.redirect, slo/soap to SLO.soap); when no row matches it goes to
\* staticfile if the path holds static/, and otherwise the answer is
\* NotFound, for an anonymous and for an identified user alike.
C19_FirstRowDispatch ==
    last.entry \notin {"idle", "metadata", "application"} =>
        LET tbl == TableFor(last.user)
            rows == {i \in 1..Len(tbl) : Match(tbl[i], last.path)}
        IN  /\ rows # {} =>
                  \E i \in rows : /\ \A j \in rows : i <= j
                                   /\ last.entry = tbl[i].name
            /\ rows = {} =>
                  IF \E k \in 1..(Len(last.path) - 1) : last.path[k] = "static"
                  THEN last.entry = "staticfile"
                  ELSE last.entry = "not_found" /\ last.outcome = "NotFound"
            /\ last.path = <<"sso", "redirect">> => last.entry = "SSO.redirect"
            /\ last.path = <<"slo", "soap">> => last.entry = "SLO.soap"
            /\ last.path = <<"verify">> =>
                  last.entry = IF last.user = None THEN "do_verify" ELSE "not_found"

\* C19, its case: an identified user's request whose path matches the
\* rows of sso/post/(.*) and of sso/redirect went to SSO.post
C19_FirstOfTwoRows ==
    /\ last.path = <<"sso", "post", "sso", "redirect">>
    /\ last.user # None
    /\ last.entry = "SSO.post"

\* C20, as claimed: staticfile answers Unauthorized, and gives out no
\* file, for every request whose canonical path is not inside the root
\* directory, be it above the root or in a directory beside it whose name
\* begins with the name of the root.
C20_ServedOnlyInsideRoot ==
    last.entry = "staticfile" =>
        LET path == realpath(ArgsPath, last.path)
            inside == /\ Len(path) > Len(ArgsPath)
                      /\ SubSeq(path, 1, Len(ArgsPath)) = ArgsPath
        IN  ~inside => last.outcome = "Unauthorized"

\* C21: whenever a request is stored and handed to do_authentication, the
\* answer is Unauthorized("No usable authentication method") when pick
\* has nothing for the requested context, and otherwise the login page of
\* the first method picked, with that method's reference, the key of the
\* ticket and the URL of the request; an exception is never the outcome.
C21_LoginPageOrUnauthorized ==
    last.stored # None =>
        LET auth_info == Pick(Message(last.received.SAMLRequest).requested_authn_context)
        IN  /\ last.outcome # "exception"
            /\ IF Len(auth_info) = 0
               THEN /\ last.outcome = "Unauthorized"
                    /\ last.msg = "No usable authentication method"
                    /\ last.form = NoForm
               ELSE /\ last.outcome = "Response"
                    /\ last.msg = "login.mako"
                    /\ last.form = [action |-> "/verify", key |-> last.stored,
                                    authn_reference |-> auth_info[1].reference,
                                    redirect_uri |-> last.path]

\* C21, its case: a request for a context the broker has no method for
\* was stored and answered Unauthorized
C21_NoUsableMethod ==
    /\ last.stored # None
    /\ Len(Pick(Message(last.received.SAMLRequest).requested_authn_context)) = 0
    /\ last.outcome = "Unauthorized"
    /\ last.msg = "No usable authentication method"

\* the request came as far as Service.response: SSO.do ran, nothing was
\* raised, and the codec scenario is one in which apply_binding returns
SSOResponded(l) ==
    /\ l.entry \in {"SSO.redirect", "SSO.post", "SSO.artifact", "SSO.ecp"}
    /\ l.do_called
    /\ l.outcome # "exception"
    /\ l.codec \in {"post", "redirect", "artifact", "nothing", "args_UnknownPrincipal"}

\* C22: Service.response answers with a redirect when the outbound
\* binding is HTTP-Artifact, with the body when apply_binding gave data,
\* with a redirect to the Location header when it gave that header and no
\* data, and with ServiceError when it gave neither; SLO.do on the
\* HTTP-Redirect binding answers with the redirect to the Location header,
\* and with ServiceError("missing Location header") without it.
C22_ResponseRendering ==
    /\ SSOResponded(last) =>
          CASE last.codec = "artifact" ->
                   last.outcome = "Redirect" /\ last.location.uri = NoStr
            [] last.codec \in {"post", "args_UnknownPrincipal"} ->
                   last.outcome = "Response" /\ last.msg = "data"
            [] last.codec = "redirect" ->
                   last.outcome = "Redirect" /\ last.location.uri = <<"Location">>
            [] OTHER ->
                   /\ last.outcome = "ServiceError"
                   /\ last.msg = "Don't know how to return response"
    /\ (/\ last.entry = "SLO.redirect"
        /\ last.logout_response
        /\ last.outcome # "exception"
        /\ last.codec \in {"ok", "no_location"}) =>
          IF last.codec = "ok"
          THEN last.outcome = "Redirect" /\ last.location.uri = <<"Location">>
          ELSE last.outcome = "ServiceError" /\ last.msg = "missing Location header"

\* C22, its case: the assertion went out as a redirect to the Location
\* header that apply_binding gave
C22_RedirectToLocation ==
    /\ SSOResponded(last)
    /\ last.codec = "redirect"
    /\ last.assertion # NoAssertion
    /\ last.outcome = "Redirect"
    /\ last.location.uri = <<"Location">>

\* C23, as claimed: SSO.redirect and SSO.post take a ticket out of the
\* Ticket Store only for a request whose user application resolved from
\* the Session Cache; a request without a user leaves the store as it is.
C23_TicketTakenByUserOnly ==
    (last.entry \in {"SSO.redirect", "SSO.post"} /\ last.taken # None) =>
        /\ last.user # None
        /\ \E uid \in DOMAIN uid2user : uid2user[uid] = last.user

\* Service.operation was entered with an envelope that holds a
\* SAMLRequest: it called do, or turned down a Signature without SigAlg
CameToOperation(l) ==
    l.do_called \/ l.msg = "Signature Algorithm specification is missing"

\* C24: a request of a logged-in user to sso/redirect or sso/post that
\* holds an AuthnRequest of its own (verified, if signed on sso/redirect)
\* and takes no ticket is stored under its digest and answered by the
\* login flow, with no assertion, when the AuthnRequest has ForceAuthn =
\* true; otherwise nothing is stored, the Ticket Store stays and the
\* request goes to Service.operation.  A request that takes a ticket goes
\* to Service.operation and stores nothing, whatever the stored
\* AuthnRequest says about ForceAuthn.
C24_ForceAuthnStoresAndAsks ==
    [][ (last'.entry \in {"SSO.redirect", "SSO.post"} /\ last'.user # None) =>
          /\ (/\ last'.taken = None
              /\ HoldsAuthnRequest(last'.received)
              /\ (last'.entry = "SSO.redirect" /\ Signed(last'.received))
                    => Verifies(last'.received)) =>
                IF Message(last'.received.SAMLRequest).force_authn = "true"
                THEN /\ last'.stored = Sha1(last'.received.SAMLRequest)
                     /\ last'.stored \in DOMAIN ticket'
                     /\ ticket'[last'.stored].SAMLRequest = last'.received.SAMLRequest
                     /\ ~last'.do_called
                     /\ last'.assertion = NoAssertion
                     /\ last'.form.key = last'.stored
                     /\ last'.outcome = "Response"
                ELSE /\ last'.stored = None
                     /\ ticket' = ticket
                     /\ CameToOperation(last')
          /\ last'.taken # None =>
                /\ last'.stored = None
                /\ last'.taken \notin DOMAIN ticket'
                /\ CameToOperation(last')
      ]_vars

\* C24, its case: a logged-in user's request with ForceAuthn = true was
\* stored and answered with the login page
C24_ForcedLogin ==
    /\ last.entry \in {"SSO.redirect", "SSO.post"}
    /\ last.user # None
    /\ last.received.SAMLRequest = "reqF"
    /\ last.stored = "kF"
    /\ "kF" \in DOMAIN ticket
    /\ last.outcome = "Response"
    /\ last.form.key = "kF"
    /\ last.assertion = NoAssertion

\* C25: a session id comes into the Session Cache only in a do_verify
\* step whose login and password match PASSWD, and it is the id that step
\* made; an entry leaves the Session Cache only in an SLO.do step, and it
\* is the entry of the user that step removed.  A key comes into the
\* Ticket Store only as the key _store_request wrote in an SSO.redirect or
\* SSO.post step, and leaves it only as the key the ticket lookup of such
\* a step took; a ticket that stays is not changed by any other step.
\* Every other handler leaves both stores as they are.
C25_StoreOwnership ==
    [][ /\ \A uid \in DOMAIN uid2user' \ DOMAIN uid2user :
              /\ last'.entry = "do_verify"
              /\ last'.posted.login \in DOMAIN PASSWD
              /\ last'.posted.password = PASSWD[last'.posted.login]
              /\ last'.minted = uid
              /\ uid2user'[uid] = last'.posted.login
        /\ \A u \in DOMAIN user2uid :
              (u \notin DOMAIN user2uid' \/ user2uid'[u] # user2uid[u]) =>
                 \/ /\ last'.entry \in {"SLO.redirect", "SLO.post", "SLO.soap"}
                    /\ last'.do_called
                    /\ last'.removed = u
                    /\ u \notin DOMAIN user2uid'
                 \/ /\ last'.entry = "do_verify"
                    /\ last'.posted.login = u
                    /\ user2uid'[u] = last'.minted
        /\ \A uid \in DOMAIN uid2user :
              (uid \notin DOMAIN uid2user' \/ uid2user'[uid] # uid2user[uid]) =>
                 /\ last'.entry \in {"SLO.redirect", "SLO.post", "SLO.soap"}
                 /\ last'.removed = uid2user[uid]
                 /\ user2uid[last'.removed] = uid
        /\ \A k \in DOMAIN ticket' :
              (k \notin DOMAIN ticket \/ ticket'[k] # ticket[k]) =>
                 /\ last'.entry \in {"SSO.redirect", "SSO.post"}
                 /\ last'.stored = k
        /\ \A k \in DOMAIN ticket \ DOMAIN ticket' :
              /\ last'.entry \in {"SSO.redirect", "SSO.post"}
              /\ last'.taken = k
        /\ last'.entry \notin {"do_verify", "SLO.redirect", "SLO.post", "SLO.soap",
                                "SSO.redirect", "SSO.post"} =>
              /\ ticket' = ticket
              /\ uid2user' = uid2user
              /\ user2uid' = user2uid
      ]_vars

\* C25, its case: a handler that owns neither store (NMI, NIM, AIDR, ARS,
\* AQS, ATTR, SSO artifact, metadata, staticfile, not_found) has answered
\* while a ticket was pending and a user logged in
C25_OtherHandlerWithFullStores ==
    /\ last.entry \notin {"idle", "application", "do_verify", "SLO.redirect", "SLO.post",
                          "SLO.soap", "SSO.redirect", "SSO.post"}
    /\ last.outcome \in {"Response", "NotFound"}
    /\ DOMAIN ticket # {}
    /\ DOMAIN user2uid # {}

\* C26: sso/ecp lets a request with the Basic credentials of a known user
\* and that user's password through to the SSO operation, and answers
\* every other request (no Authorization header, not Basic, undecodable
\* or malformed credentials, unknown user, wrong password) Unauthorized
\* without building an assertion.
C26_EcpCredentialCheck ==
    last.entry = "SSO.ecp" =>
        IF last.authz \in GoodAuthorizations
        THEN /\ last.outcome # "exception"
             /\ last.outcome # "Unauthorized"
        ELSE /\ last.outcome = "Unauthorized"
             /\ last.assertion = NoAssertion

C28_ForcedReauthentication ==
    ( /\ last.entry \in {"SSO.redirect", "SSO.post"}
      /\ last.taken # None
      /\ last.ticket_by.forced
      /\ last.assertion # NoAssertion
      /\ ForceAuthn(Message(last.assertion.request)) )
    => rnd > 1

\* C29: _store_request does not put, under the key of a pending ticket,
\* an envelope with another RelayState than the pending one has: the
\* login flow that was handed the key finds its own RelayState on return.
C29_TicketKeepsItsEnvelope ==
    last.stored # None /\ ~last.replaced.nil
        => ticket[last.stored].RelayState = last.replaced.RelayState

\* C30: the authentication method recorded with an assertion is the one
\* whose handler verified the credentials of the session.  Every session
\* is made by do_verify, which checks the password, so the method attached
\* to an assertion is the one registered with username_password_authn.
C30_RecordedMethodVerified ==
    last.assertion # NoAssertion /\ last.assertion.authn # NoStr
        => AUTHN_BROKER[last.assertion.authn].method = "username_password_authn"

\* C31: a do_verify that does not answer with the redirect that completes
\* the login has made no session: nothing was put into the Session Cache.
C31_NoSessionWithoutRedirect ==
    last.entry = "do_verify" /\ last.outcome # "Redirect"
        => last.minted = NoStr

\* C32: the anonymous browser that sends a valid AuthnRequest to
\* sso/redirect, posts the right credentials and follows the redirect
\* has, when no other request presents its key, the authenticated SSO
\* response in the end, its ticket taken out of the Ticket Store: once it
\* has followed the redirect, the response it holds is that one, and no
\* step of the flow fails before.
C32_LoginCompletes ==
    /\ browser.pc # "failed"
    /\ browser.pc = "done" =>
          /\ browser.reply.outcome = "Response"
          /\ browser.reply.assertion.userid = "testuser"
          /\ browser.reply.taken = browser.form.key
====
